---- MODULE Spec2Model ----
(***************************************************************************)
(* Model of the Investing.com economic-calendar scraper                    *)
(* (src/src/invest_Ecalendar/scraper.py, class InvestingCalendarScraper):  *)
(* the date-chunk planner, the table parser and the chunk runner / run     *)
(* loop.                                                                   *)
(*                                                                         *)
(* Dates.  A date STRING in "%Y-%m-%d" form is the triple <<y, m, d>>; a   *)
(* datetime OBJECT is its proleptic Gregorian ordinal (an integer, as      *)
(* datetime.toordinal gives it).  strptime / strftime convert between the  *)
(* two the way the library does, so that day arithmetic crosses month and  *)
(* leap-year boundaries as in the program.                                 *)
(***************************************************************************)
EXTENDS Integers, Sequences, FiniteSets, TLC

VARIABLES
    pc,              \* position of the single thread of control
    exc,             \* the exception in flight / last raised ("none" if none)
    start_date,      \* argument: window start, a date string
    end_date,        \* argument: window end, a date string
    interval_days,   \* argument: chunk length in days
    start,           \* _generate_date_chunks: parsed start (ordinal)
    end,             \* _generate_date_chunks: parsed end (ordinal)
    current,         \* _generate_date_chunks: loop cursor (ordinal)
    chunks,          \* _generate_date_chunks: list of (start string, end string)
    table,           \* the loaded page: "none" | "no_tbody" | "ok"
    rows,            \* the loaded page: the <tr> rows of the table body
    start_date_str,  \* _parse_data argument
    end_date_str,    \* _parse_data argument
    start_date_obj,  \* _parse_data: parsed window start
    end_date_obj,    \* _parse_data: parsed window end
    ri,              \* _parse_data: number of rows already scanned
    current_date,    \* _parse_data: carried section date (ordinal or NoDate)
    results,         \* _parse_data: the records built so far
    driver,          \* the browsing session: "open" | "dead" (crashed or
                     \* unreachable: every call raises) | "quit"
    date_chunks,     \* run: the planned chunks
    idx,             \* run: number of chunks the loop has finished
    generated_files, \* run: names of the artifacts written
    filename,        \* _scrape_single_range: its return value (NoFile for None)
    files,           \* the output directory: artifact name -> content
    height,          \* the loaded page: document.body.scrollHeight
    view_filter,     \* the session: the countries the calendar view is
                     \* filtered by
    country_labels,  \* the filter form: the labels of the rendered options
    default_countries, \* the filter form: the options the site ticks by default
    checked,         \* the filter form: the options ticked now
    target_countries, \* run's argument: the wanted countries
    log,             \* the lines about chunks in the logs directory, oldest first
    now,             \* the clock datetime.now() reads
    last_height,     \* _scroll_to_load: the height read before this iteration
    attempts,        \* _scroll_to_load: iterations used up
    current_loaded_date, \* _scroll_to_load: the date the iteration read off
                     \* the last day row (NoDate if it read none)
    scroll_exit,     \* _scroll_to_load: the way its last call ended
    scrolls,         \* _scroll_to_load: scrollTo commands sent by its last call
    tasks,           \* the service: its background tasks, each with its step,
                     \* its window and the records its own session reads
    handlers,        \* logging.getLogger("InvestingScraper").handlers: the
                     \* tasks whose log file the named logger writes to
    log_files,       \* the logs directory: task -> the lines in its log file,
                     \* each line the task that logged it
    lookup,          \* the Morningstar scrapers: the element being looked for
    selectors,       \* the lookup's selector list: what each listed selector
                     \* meets on the page
    tried,           \* the lookup: the selectors tried so far, by their place
                     \* in the list, oldest first
    found,           \* the lookup: the place of the selector whose result is
                     \* held (export_btn, btn, date_labels), 0 for none
    csv_file,        \* constituents: the local CSV, [exists, rows], each row
                     \* the text of its four cells
    wiki_table,      \* constituents: the table pd.read_html makes of the page
    latest,          \* SP500AppendOnlyUpdater.run: the fetched frame
    existing,        \* SP500AppendOnlyUpdater.run: the loaded frame
    to_add,          \* SP500AppendOnlyUpdater.run: the rows to append
    attempt,         \* _get_html: the loop variable, 3 once the loop is over
    last_err,        \* _get_html: the last exception caught
    requests_made,   \* _get_html: requests.get calls made so far
    url_idx,         \* MorningstarScraper.run: URLs the loop has finished
    success_count,   \* MorningstarScraper.run
    fail_count,      \* MorningstarScraper.run
    ret,             \* process_url: its return value
    report_type,     \* process_url: the place of the report type the loop is
                     \* at in REPORT_TYPES, 0 outside the loop
    downloads,       \* the browser's downloads, one an export <<url, report>>:
                     \* "none" | "pending" (asked for, no file yet) |
                     \* "partial" (a .crdownload file in the download
                     \* directory) | "done" (an .xls file there) | "moved"
    mtimes,          \* the exports whose .xls file was written, oldest first
    saved,           \* the output folders: [folder, from], the file of the
                     \* export `from` saved under the report type `folder`
    wait_elapsed,    \* wait_for_download: seconds since start_time
    downloaded_file, \* process_url: what wait_for_download returned, the
                     \* export the file comes from (NoExport for None)
    db_conn,         \* EarningsScraper: self.db_conn is a connection (not None)
    connection,      \* the database connection psycopg2.connect made:
                     \* "none" | "open" | "closed"
    urls             \* scrape_all: the number of URLs read from the CSV

planVars  == <<start_date, end_date, interval_days, start, end, current, chunks>>
pageVars  == <<table, rows, height>>
parseVars == <<start_date_str, end_date_str, start_date_obj, end_date_obj,
               ri, current_date, results>>
scrollVars == <<last_height, attempts, current_loaded_date, scroll_exit,
               scrolls>>
formVars  == <<country_labels, default_countries, checked, target_countries>>
sessVars  == <<driver, view_filter, formVars>>
loopVars  == <<date_chunks, idx, generated_files, filename>>
concVars  == <<tasks, handlers, log_files>>
selVars   == <<lookup, selectors, tried, found>>
updVars   == <<csv_file, wiki_table, latest, existing, to_add, attempt,
               last_err, requests_made>>
dlVars    == <<url_idx, success_count, fail_count, ret, report_type,
               downloads, mtimes, saved, wait_elapsed, downloaded_file>>
earnVars  == <<db_conn, connection, urls>>
batchVars == <<updVars, dlVars, earnVars>>
outVars   == <<files, log, now, concVars, selVars, batchVars>>
runVars   == <<sessVars, loopVars, outVars, scrollVars>>
vars == <<pc, exc, planVars, pageVars, parseVars, runVars>>

\* None where a datetime is expected: no day has the ordinal 0
NoDate == 0
\* a date string not yet given
NoDateStr == <<0, 0, 0>>
\* None where an artifact name is expected
NoFile == <<>>

(***************************************************************************)
(* Bounds of the model                                                     *)
(***************************************************************************)
\* longest window: end = start + MaxSpan days
MaxSpan == 10
\* largest chunk length tried
MaxInterval == 8
\* most rows of a page handed to the parser
MaxRows == 4
\* longest window of a whole run: end = start + RunMaxSpan days
RunMaxSpan == 1
\* most rows of a page loaded during a whole run
RunMaxRows == 2
\* how often the harvest is run over one window
MaxRuns == 2

\* the planner's list never needs more entries than the window has days; the
\* cap only stops the loop that interval_days <= 0 makes endless
MaxChunks == MaxSpan + 2

(***************************************************************************)
(* The calendar: datetime's date <-> ordinal conversions                   *)
(***************************************************************************)
IsLeap(y) == (y % 4 = 0) /\ ((y % 100 # 0) \/ (y % 400 = 0))

DaysInMonth(y, m) ==
    IF m = 2 THEN (IF IsLeap(y) THEN 29 ELSE 28)
    ELSE IF m \in {4, 6, 9, 11} THEN 30 ELSE 31

\* days in the months of a non-leap year before month m (m in 1..13)
DaysBeforeMonthCommon(m) ==
    <<0, 31, 59, 90, 120, 151, 181, 212, 243, 273, 304, 334, 365>>[m]

DaysBeforeMonth(y, m) ==
    DaysBeforeMonthCommon(m) + (IF m > 2 /\ IsLeap(y) THEN 1 ELSE 0)

DaysBeforeYear(y) ==
    LET p == y - 1 IN p * 365 + (p \div 4) - (p \div 100) + (p \div 400)

\* a date string names a day of the calendar (strptime raises ValueError if not)
IsValidDate(s) ==
    /\ s[1] \in 1..9999
    /\ s[2] \in 1..12
    /\ s[3] \in 1..DaysInMonth(s[1], s[2])

\* datetime.strptime(s, "%Y-%m-%d") of a valid string, as an ordinal
StrpTime(s) == DaysBeforeYear(s[1]) + DaysBeforeMonth(s[1], s[2]) + s[3]

\* datetime.strftime("%Y-%m-%d"): the ordinal back to year, month, day
StrfTime(ordinal) ==
    LET n0   == ordinal - 1
        n400 == n0 \div 146097
        r400 == n0 % 146097
        n100 == r400 \div 36524
        r100 == r400 % 36524
        n4   == r100 \div 1461
        r4   == r100 % 1461
        n1   == r4 \div 365
        n    == r4 % 365
        year == n400 * 400 + 1 + n100 * 100 + n4 * 4 + n1
    IN  IF n1 = 4 \/ n100 = 4
        THEN <<year - 1, 12, 31>>
        ELSE LET leap  == (n1 = 3) /\ ((n4 # 24) \/ (n100 = 3))
                 lp(m) == IF m > 2 /\ leap THEN 1 ELSE 0
                 m0    == (n + 50) \div 32
                 pre0  == DaysBeforeMonthCommon(m0) + lp(m0)
                 month == IF pre0 > n THEN m0 - 1 ELSE m0
                 pre   == DaysBeforeMonthCommon(month) + lp(month)
             IN  <<year, month, n - pre + 1>>

(***************************************************************************)
(* _generate_date_chunks (the planner)                                     *)
(***************************************************************************)
\* faulty variant: the "- 1" of line 101 forgotten
ChunkEnd_OffByOne(cur, e, n) ==
    LET chunk_end == cur + n
    IN  IF chunk_end > e THEN e ELSE chunk_end

\* lines 101-103: the end of the chunk that starts at cur
ChunkEnd(cur, e, n) ==
    LET chunk_end == cur + (n - 1)
    IN  IF chunk_end > e THEN e ELSE chunk_end

\* faulty variant: the next chunk starts two days after the previous one ends
NextCurrent_Gap(chunk_end) == chunk_end + 2

\* line 106: where the next chunk starts
NextCurrent(chunk_end) == chunk_end + 1

\* lines 95-99: parse both strings; a malformed one raises ValueError
GenParse ==
    /\ pc = "gen_parse"
    /\ IsValidDate(start_date) /\ IsValidDate(end_date)
    /\ start' = StrpTime(start_date)
    /\ end' = StrpTime(end_date)
    /\ chunks' = <<>>
    /\ current' = StrpTime(start_date)
    /\ pc' = "gen_loop"
    /\ UNCHANGED <<exc, start_date, end_date, interval_days, pageVars, parseVars, runVars>>

GenParseRaise ==
    /\ pc = "gen_parse"
    /\ ~(IsValidDate(start_date) /\ IsValidDate(end_date))
    /\ exc' = "ValueError"
    /\ pc' = "gen_raised"
    /\ UNCHANGED <<planVars, pageVars, parseVars, runVars>>

\* lines 100-106: one iteration of the while loop
GenIter ==
    /\ pc = "gen_loop"
    /\ current <= end
    /\ Len(chunks) < MaxChunks
    /\ LET chunk_end == ChunkEnd(current, end, interval_days)
       IN  /\ chunks' = Append(chunks, <<StrfTime(current), StrfTime(chunk_end)>>)
           /\ current' = NextCurrent(chunk_end)
    /\ UNCHANGED <<pc, exc, start_date, end_date, interval_days, start, end,
                   pageVars, parseVars, runVars>>

\* lines 100, 108: the loop condition fails, the list is returned
GenReturn ==
    /\ pc = "gen_loop"
    /\ ~(current <= end)
    /\ pc' = "gen_returned"
    /\ UNCHANGED <<exc, planVars, pageVars, parseVars, runVars>>

(***************************************************************************)
(* The page: rows of the table #economicCalendarData                       *)
(*                                                                         *)
(* A row is [has_theDay, theDay, event_item, cells, time, event, stars,     *)
(* tr_theDay]:                                                             *)
(*   tr_theDay   the tr itself carries the class theDay, which is what the *)
(*               loader's selector asks for; the pages modelled put the    *)
(*               class on the tr of every row that has a td.theDay cell    *)
(*   has_theDay  the row has a td.theDay cell                              *)
(*   theDay      the whitespace-split text of that cell, a sequence of     *)
(*               tokens                                                    *)
(*   event_item  the row carries the class js-event-item                   *)
(*   cells       the classes of the td cells the row has                   *)
(*   time, event the text of the time and event cells                      *)
(*   stars       the number of grayFullBullishIcon marks                   *)
(* A token is [fmt, ymd]: "cjk" is a date written "Y年M月D日", "iso" one      *)
(* written "Y-M-D", "text" any other word.                                 *)
(***************************************************************************)
CjkToken(d)  == [fmt |-> "cjk", ymd |-> d]
IsoToken(d)  == [fmt |-> "iso", ymd |-> d]
WordToken    == [fmt |-> "text", ymd |-> <<0, 0, 0>>]

\* the cells _parse_data reads with .text, which raises when the cell is missing
RequiredCells == {"time", "flagCur", "event", "act", "fore", "prev"}
AllCells == RequiredCells \cup {"sentiment"}

HeaderRow(label) ==
    [has_theDay |-> TRUE, theDay |-> label, event_item |-> FALSE, cells |-> {},
     time |-> "", event |-> "", stars |-> 0, tr_theDay |-> TRUE]
DataRow(cs, tm, ev, st) ==
    [has_theDay |-> FALSE, theDay |-> <<>>, event_item |-> TRUE, cells |-> cs,
     time |-> tm, event |-> ev, stars |-> st, tr_theDay |-> FALSE]
OtherRow ==
    [has_theDay |-> FALSE, theDay |-> <<>>, event_item |-> FALSE, cells |-> {},
     time |-> "", event |-> "", stars |-> 0, tr_theDay |-> FALSE]

\* an event row with every cell
ValidRow     == DataRow(AllCells, "08:30", "CPI", 3)
\* no sentiment cell: importance 0, still a record
PlainRow     == DataRow(RequiredCells, "10:00", "GDP", 0)
\* the "act" cell is missing: extraction raises
MalformedRow == DataRow(AllCells \ {"act"}, "09:00", "PMI", 2)

\* the label of a header for day d: "Y年M月D日 <weekday>"
DayLabel(d) == <<CjkToken(d), WordToken>>

\* line 310-311: the row has a td.theDay cell
IsHeaderRow(row) == row.has_theDay
\* line 320: an event row (reached only when the row is no header row)
IsDataRow(row) == ~IsHeaderRow(row) /\ row.event_item

(***************************************************************************)
(* _parse_data (the table parser)                                          *)
(***************************************************************************)
\* faulty variant: the carried date of an earlier parse is kept
InitialSectionDate_Carry(previous) == previous

\* line 305: the carried section date at the start of a parse
InitialSectionDate(previous) == NoDate

\* lines 312-317: the carried date after a header row with this label.
\* strptime(parts[0], '%Y年%m月%d日') raises on any other text and the bare
\* except sets None; an empty parts list skips the assignment.
HeaderDate(label, carried) ==
    IF label = <<>>
    THEN carried
    ELSE IF label[1].fmt = "cjk" /\ IsValidDate(label[1].ymd)
         THEN StrpTime(label[1].ymd)
         ELSE NoDate

\* faulty variant: only the lower end of the window is tested
InWindow_NoUpper(carried, s, e) == carried # NoDate /\ s <= carried

\* line 321: the carried date is set and inside the window
InWindow(carried, s, e) == carried # NoDate /\ s <= carried /\ carried <= e

\* lines 323-335: every cell read with .text is there
CanExtract(row) == RequiredCells \subseteq row.cells

\* lines 330, 337-350: the record of a data row
MakeItem(row, carried) ==
    [date       |-> StrfTime(carried),
     time       |-> row.time,
     importance |-> IF "sentiment" \in row.cells THEN row.stars ELSE 0,
     event      |-> row.event]

\* faulty variant: an extraction error leaves the row loop
DataRowStep_Abort(row, carried, res, s, e) ==
    IF InWindow(carried, s, e)
    THEN IF CanExtract(row)
         THEN [pc |-> "parse_loop", results |-> Append(res, MakeItem(row, carried))]
         ELSE [pc |-> "parse_raised", results |-> res]
    ELSE [pc |-> "parse_loop", results |-> res]

\* lines 320-353: an event row appends a record, or is skipped
DataRowStep(row, carried, res, s, e) ==
    IF InWindow(carried, s, e)
    THEN IF CanExtract(row)
         THEN [pc |-> "parse_loop", results |-> Append(res, MakeItem(row, carried))]
         ELSE [pc |-> "parse_loop", results |-> res]
    ELSE [pc |-> "parse_loop", results |-> res]

\* lines 297-307: find the table, set up the scan
ParseBegin ==
    /\ pc = "parse_begin"
    /\ \/ /\ table = "none"                       \* lines 299-301: return []
          /\ results' = <<>>
          /\ pc' = "parse_returned"
          /\ UNCHANGED <<exc, start_date_obj, end_date_obj, ri, current_date>>
       \/ /\ table = "no_tbody"                   \* line 304: None.find_all
          /\ exc' = "AttributeError"
          /\ pc' = "parse_raised"
          /\ UNCHANGED <<start_date_obj, end_date_obj, ri, current_date, results>>
       \/ /\ table = "ok"
          /\ results' = <<>>
          /\ ri' = 0
          /\ current_date' = InitialSectionDate(current_date)
          /\ start_date_obj' = StrpTime(start_date_str)
          /\ end_date_obj' = StrpTime(end_date_str)
          /\ pc' = "parse_loop"
          /\ UNCHANGED exc
    /\ UNCHANGED <<planVars, pageVars, start_date_str, end_date_str, runVars>>

\* lines 309-353: one row of the scan
ParseRow ==
    /\ pc = "parse_loop"
    /\ ri < Len(rows)
    /\ ri' = ri + 1
    /\ LET row == rows[ri + 1]
       IN  \/ /\ IsHeaderRow(row)                 \* lines 310-318
              /\ current_date' = HeaderDate(row.theDay, current_date)
              /\ UNCHANGED <<pc, exc, results>>
           \/ /\ IsDataRow(row)                   \* lines 320-353
              /\ LET r == DataRowStep(row, current_date, results,
                                      start_date_obj, end_date_obj)
                 IN  /\ pc' = r.pc
                     /\ results' = r.results
                     /\ exc' = IF r.pc = "parse_raised" THEN "AttributeError" ELSE exc
              /\ UNCHANGED current_date
           \/ /\ ~IsHeaderRow(row) /\ ~IsDataRow(row)
              /\ UNCHANGED <<pc, exc, current_date, results>>
    /\ UNCHANGED <<planVars, pageVars, start_date_str, end_date_str,
                   start_date_obj, end_date_obj, runVars>>

\* line 354: all rows scanned
ParseReturn ==
    /\ pc = "parse_loop"
    /\ ri = Len(rows)
    /\ pc' = "parse_returned"
    /\ UNCHANGED <<exc, planVars, pageVars, parseVars, runVars>>

(***************************************************************************)
(* run and _scrape_single_range (the run loop and the chunk runner)        *)
(***************************************************************************)
\* the exception classes the steps raise; all derive from Exception
Exceptions == {"WebDriverException", "TimeoutException", "AttributeError",
               "OSError", "ValueError"}

\* faulty variant: the handler names the driver's exceptions only
SrCatches_DriverOnly(e) == e \in {"WebDriverException", "TimeoutException"}

\* line 186: except Exception
SrCatches(e) == e \in Exceptions

\* faulty variant: the moment of the crawl is part of the name
ArtifactName_Stamped(s, e) == <<s, e, now>>

\* line 170: the artifact's name is made of the chunk's two date strings
ArtifactName(s, e) == <<s, e>>

\* faulty variant: count tells the rows of the page, not the records
Artifact_CountsRows(s, e, data) ==
    [state |-> "complete",
     meta  |-> [crawled_at |-> now, filter_start |-> s, filter_end |-> e,
                count |-> Len(rows)],
     data  |-> data]

\* lines 172-180: the artifact of a chunk; crawled_at is the clock's reading
Artifact(s, e, data) ==
    [state |-> "complete",
     meta  |-> [crawled_at |-> now, filter_start |-> s, filter_end |-> e,
                count |-> Len(data)],
     data  |-> data]

\* line 357: the file as open(filename, 'w') leaves it, before json.dump is done
PartialFile ==
    [state |-> "partial",
     meta  |-> [crawled_at |-> 0, filter_start |-> NoDateStr,
                filter_end |-> NoDateStr, count |-> 0],
     data  |-> <<>>]

\* the chunk the loop is at (line 134)
CurChunk == date_chunks[idx + 1]

\* a line of the log about chunk c: "apply_date" (line 247),
\* "date_filter_failed" (line 253), "saved" (line 183), "failed" (line 187);
\* the formatter of line 63 puts the time in front of it
LogLine(ev, c) == [ev |-> ev, chunk |-> c, at |-> now]

\* the rows a page may show while chunk c is loaded: the header of the chunk's
\* first day, the header of the day after the chunk (over-fetched), event rows
RunRowKinds(c) ==
    {HeaderRow(DayLabel(c[1])),
     HeaderRow(DayLabel(StrfTime(StrpTime(c[2]) + 1))),
     ValidRow}

RunPages(c) == UNION {[1..k -> RunRowKinds(c)] : k \in 0..RunMaxRows}

\* faulty variant: a failed chunk ends the loop
AfterChunk_StopOnFailure(f) == IF f = NoFile THEN "run_return" ELSE "run_loop"

\* faulty variant: the countries are filtered again after every chunk
AfterChunk_Refilter(f) == "run_filters"

\* lines 134-141: whatever the chunk runner returned, the loop goes on
AfterChunk(f) == "run_loop"

\* faulty variant: the loop steps over a chunk
NextIdx_Skip(i) == i + 2

\* line 134: enumerate hands out the chunks one by one
NextIdx(i) == i + 1

\* lines 87-91: close() calls driver.quit(), which ends the session
Close(d) == "quit"

\* faulty variant: the session is closed on the normal path only
ExceptFinally_NoClose(d) == d

\* lines 147-151: the finally clause after the handler has raised again
ExceptFinally(d) == Close(d)

\* lines 110-122: the defaults, the log line, the call of the planner
RunEntry ==
    /\ pc = "run_entry"
    /\ pc' = "gen_parse"
    /\ UNCHANGED <<exc, planVars, pageVars, parseVars, runVars>>

\* line 122 lies outside the try: the planner's exception leaves run
RunPlanRaised ==
    /\ pc = "gen_raised"
    /\ pc' = "done_raised"
    /\ UNCHANGED <<exc, planVars, pageVars, parseVars, runVars>>

\* lines 121-122: the plan is kept
RunPlanned ==
    /\ pc = "gen_returned"
    /\ date_chunks' = chunks
    /\ generated_files' = <<>>
    /\ pc' = "run_get"
    /\ UNCHANGED <<exc, planVars, pageVars, parseVars, sessVars, idx, filename,
                   outVars, scrollVars>>

\* lines 125-129: the first navigation
RunGet ==
    /\ pc = "run_get"
    /\ \/ pc' = "run_filters" /\ UNCHANGED exc           \* loaded
       \/ pc' = "run_filters" /\ exc' = "TimeoutException" \* caught, window.stop()
       \/ pc' = "run_except" /\ exc' = "WebDriverException" \* get or stop raises
    /\ UNCHANGED <<planVars, pageVars, parseVars, runVars>>

\* line 230: target in country_name, on strings as sequences of characters
IsSubstring(target, country_name) ==
    \E i \in 0..(Len(country_name) - Len(target)) :
        SubSeq(country_name, i + 1, i + Len(target)) = target

\* line 230: any(target in country_name for target in target_countries)
Wanted(country_name) ==
    \E target \in target_countries : IsSubstring(target, country_name)

\* lines 241-242: every exception of _apply_country_filters ends it with a
\* warning; the form is left as it is and nothing reads it again
CfWarn ==
    /\ pc' = "run_loop"
    /\ idx' = 0
    /\ checked' = {}
    /\ UNCHANGED view_filter

\* lines 131-132, 208-210: _handle_popup, then the filter form is opened
CfOpen ==
    /\ pc = "run_filters"
    /\ \/ pc' = "cf_restore" /\ UNCHANGED <<idx, checked, view_filter>>
       \/ CfWarn                       \* line 208: the wait times out
    /\ UNCHANGED <<exc, planVars, pageVars, parseVars, driver, country_labels,
                   default_countries, target_countries, date_chunks,
                   generated_files, filename, outVars, scrollVars>>

\* lines 212-218: the restore-defaults button is clicked when it is found and
\* displayed; an exception is passed over
CfRestore ==
    /\ pc = "cf_restore"
    /\ \/ checked' = default_countries   \* line 215: clicked
       \/ UNCHANGED checked               \* not displayed, or lines 217-218
    /\ pc' = "cf_clear"
    /\ UNCHANGED <<exc, planVars, pageVars, parseVars, driver, view_filter,
                   country_labels, default_countries, target_countries,
                   loopVars, outVars, scrollVars>>

\* lines 220-225: every ticked option is clicked; a click that raises is
\* passed over (lines 224-225), and its option stays ticked
CfClear ==
    /\ pc = "cf_clear"
    /\ \/ /\ \E raised \in SUBSET checked : checked' = raised
          /\ pc' = "cf_select"
          /\ UNCHANGED <<idx, view_filter>>
       \/ CfWarn                       \* line 220: find_elements raises
    /\ UNCHANGED <<exc, planVars, pageVars, parseVars, driver, country_labels,
                   default_countries, target_countries, date_chunks,
                   generated_files, filename, outVars, scrollVars>>

\* lines 227-235: every option with a wanted label that is not ticked is
\* clicked
CfSelect ==
    /\ pc = "cf_select"
    /\ \/ /\ checked' = checked \cup {l \in country_labels : Wanted(l)}
          /\ pc' = "cf_submit"
          /\ UNCHANGED <<idx, view_filter>>
       \/ CfWarn                       \* lines 227, 233: a lookup raises
    /\ UNCHANGED <<exc, planVars, pageVars, parseVars, driver, country_labels,
                   default_countries, target_countries, date_chunks,
                   generated_files, filename, outVars, scrollVars>>

\* lines 237-239: the form is submitted, the view takes the ticked options
CfSubmit ==
    /\ pc = "cf_submit"
    /\ \/ /\ view_filter' = checked
          /\ pc' = "run_loop"
          /\ idx' = 0
          /\ UNCHANGED checked
       \/ CfWarn                       \* line 237: no submit button
    /\ UNCHANGED <<exc, planVars, pageVars, parseVars, driver, country_labels,
                   default_countries, target_countries, date_chunks,
                   generated_files, filename, outVars, scrollVars>>

\* lines 134-137: the next chunk, or the end of the loop
RunLoop ==
    /\ pc = "run_loop"
    /\ pc' = IF idx < Len(date_chunks) THEN "sr_date" ELSE "run_return"
    /\ UNCHANGED <<exc, planVars, pageVars, parseVars, runVars>>

\* lines 156, 244-254: the date filter reloads the table; its handler logs and
\* raises again
SrDate ==
    /\ pc = "sr_date"
    /\ \/ /\ driver = "open"
          /\ \/ table' = "ok" /\ rows' \in RunPages(CurChunk)
             \/ table' \in {"none", "no_tbody"} /\ rows' = <<>>
          /\ height' = 0
          /\ log' = Append(log, LogLine("apply_date", CurChunk))
          /\ pc' = "sr_scroll"
          /\ UNCHANGED <<exc, driver>>
       \/ /\ log' = log \o <<LogLine("apply_date", CurChunk),
                             LogLine("date_filter_failed", CurChunk)>>
          /\ pc' = "sr_raised"
          /\ exc' = "WebDriverException"
          /\ driver' \in {driver, "dead"}     \* the script failed, or the session did
          /\ UNCHANGED pageVars
    /\ UNCHANGED <<planVars, parseVars, view_filter, formVars, loopVars, files, now, concVars, selVars, batchVars,
                   scrollVars>>

(***************************************************************************)
(* _scroll_to_load                                                         *)
(***************************************************************************)
\* line 263
max_scroll_attempts == 30

\* line 271: the rows the selector "#economicCalendarData tr.theDay" finds
DayRows(rws) == SelectSeq(rws, LAMBDA r : r.tr_theDay)

\* lines 274-277: text.split(' ')[0] read with '%Y年%m月%d日'; NoDate stands for
\* the ValueError of line 281
LoadedDate(label) ==
    IF label # <<>> /\ label[1].fmt = "cjk" /\ IsValidDate(label[1].ymd)
    THEN StrpTime(label[1].ymd)
    ELSE NoDate

\* lines 271-284: the date the iteration reads off the last day row; NoDate
\* when the query raised, found nothing or the text is no date
SeenDate(rws, query_ok) ==
    IF query_ok /\ DayRows(rws) # <<>>
    THEN LoadedDate(DayRows(rws)[Len(DayRows(rws))].theDay)
    ELSE NoDate

\* what the page may have become two seconds after one scrollTo: nothing new,
\* a taller page, or a taller page with one more row
PageAfterScroll(c) ==
    {<<rows, height>>, <<rows, height + 1>>}
        \cup (IF table = "ok" /\ Len(rows) < RunMaxRows
              THEN {<<Append(rows, r), height + 1>> : r \in RunRowKinds(c)}
              ELSE {})

\* faulty variant: the loop has no budget
LoopGuard_NoBudget(a) == TRUE

\* line 266
LoopGuard(a) == a < max_scroll_attempts

\* faulty variant: the height is looked at first
IterExit_HeightFirst(reached, stalled) ==
    IF stalled THEN "stalled" ELSE IF reached THEN "date_reached" ELSE "none"

\* lines 278-288: the date test comes before the height test
IterExit(reached, stalled) ==
    IF reached THEN "date_reached" ELSE IF stalled THEN "stalled" ELSE "none"

\* faulty variant: the height test never ends the loop
Stalled_Never(new_height, old_height) == FALSE

\* line 287
Stalled(new_height, old_height) == new_height = old_height

\* faulty variant: an exception of the scrolling leaves the function
ScrollCatches_None(e) == FALSE

\* line 291: except Exception
ScrollCatches(e) == e \in Exceptions

\* where _scroll_to_load goes when a driver call of its own raises
ScrollRaise ==
    IF ScrollCatches("WebDriverException")
    THEN pc' = "sr_page_source" /\ scroll_exit' = "error" /\ UNCHANGED exc
    ELSE pc' = "sr_raised" /\ scroll_exit' = "raised"
            /\ exc' = "WebDriverException"

\* lines 258-264: the stop date, the first height, the budget
ScrollBegin ==
    /\ pc = "sr_scroll"
    /\ scrolls' = 0
    /\ current_loaded_date' = NoDate
    /\ \/ /\ driver = "open"
          /\ last_height' = height
          /\ attempts' = 0
          /\ pc' = "scroll_loop"
          /\ UNCHANGED <<exc, scroll_exit>>
       \/ /\ ScrollRaise                            \* line 261 raises
          /\ UNCHANGED <<last_height, attempts>>
    /\ UNCHANGED <<planVars, pageVars, parseVars, sessVars, loopVars, outVars>>

\* lines 266-290: one iteration of the loop
ScrollIter ==
    /\ pc = "scroll_loop"
    /\ LoopGuard(attempts)
    /\ \/ /\ ScrollRaise                            \* line 267 raises
          /\ UNCHANGED <<pageVars, last_height, attempts, current_loaded_date,
                         scrolls>>
       \/ \E pg \in PageAfterScroll(CurChunk), query_ok, height_ok \in BOOLEAN :
            LET seen    == SeenDate(pg[1], query_ok)
                reached == seen # NoDate /\ seen >= StrpTime(CurChunk[2])
                ex      == IterExit(reached, Stalled(pg[2], last_height))
            IN  /\ driver = "open"
                /\ rows' = pg[1]
                /\ height' = pg[2]
                /\ scrolls' = scrolls + 1
                /\ UNCHANGED table
                /\ IF ex = "date_reached"
                   THEN /\ pc' = "sr_page_source"   \* lines 278-280
                        /\ scroll_exit' = ex
                        /\ current_loaded_date' = seen
                        /\ UNCHANGED <<exc, last_height, attempts>>
                   ELSE IF ~height_ok
                   THEN /\ ScrollRaise              \* line 286 raises
                        /\ current_loaded_date' = seen
                        /\ UNCHANGED <<last_height, attempts>>
                   ELSE IF ex = "stalled"
                   THEN /\ pc' = "sr_page_source"   \* lines 287-288
                        /\ scroll_exit' = ex
                        /\ current_loaded_date' = seen
                        /\ UNCHANGED <<exc, last_height, attempts>>
                   ELSE /\ last_height' = pg[2]     \* lines 289-290
                        /\ attempts' = attempts + 1
                        \* the date read is not looked at again
                        /\ current_loaded_date' = NoDate
                        /\ UNCHANGED <<pc, exc, scroll_exit>>
    /\ UNCHANGED <<planVars, parseVars, sessVars, loopVars, outVars>>

\* line 266: the budget is used up and the function returns
ScrollExhausted ==
    /\ pc = "scroll_loop"
    /\ ~LoopGuard(attempts)
    /\ pc' = "sr_page_source"
    /\ scroll_exit' = "exhausted"
    /\ UNCHANGED <<exc, planVars, pageVars, parseVars, sessVars, loopVars,
                   outVars, last_height, attempts, current_loaded_date, scrolls>>

(***************************************************************************)
(* _scrape_single_range after the loading, and the end of run              *)
(***************************************************************************)
\* lines 158, 294-297: the call of _parse_data and its read of driver.page_source.
\* The loader's frame is gone, and nothing reads the page's height any more.
SrPageSource ==
    /\ pc = "sr_page_source"
    /\ \/ /\ driver = "open"
          /\ pc' = "parse_begin"
          /\ start_date_str' = CurChunk[1]
          /\ end_date_str' = CurChunk[2]
          /\ UNCHANGED <<exc, driver>>
       \/ /\ pc' = "sr_raised"
          /\ exc' = "WebDriverException"
          /\ driver' \in {driver, "dead"}     \* the read failed, or the session did
          /\ UNCHANGED <<start_date_str, end_date_str>>
    /\ last_height' = 0 /\ attempts' = 0 /\ current_loaded_date' = NoDate
    /\ scrolls' = 0 /\ height' = 0
    /\ UNCHANGED <<planVars, table, rows, start_date_obj, end_date_obj, ri,
                   current_date, results, view_filter, formVars, loopVars, outVars,
                   scroll_exit>>

\* lines 160-182, 357: the output directory and open(filename, 'w'), which
\* empties the file
SrSaveOpen ==
    /\ pc = "parse_returned"
    /\ \/ /\ files' = (ArtifactName(CurChunk[1], CurChunk[2]) :> PartialFile) @@ files
          /\ pc' = "sr_save_dump"
          /\ UNCHANGED exc
       \/ /\ pc' = "sr_raised"
          /\ exc' = "OSError"
          /\ UNCHANGED files
    /\ UNCHANGED <<planVars, pageVars, parseVars, sessVars, loopVars, log, now, concVars, selVars, batchVars,
                   scrollVars>>

\* faulty variant: what is dumped does not reach the disk
Dump_NotFlushed(fs, name, content) == fs

\* lines 357-358: json.dump into the open file, which the with statement closes
Dump(fs, name, content) == (name :> content) @@ fs

\* lines 358, 183-184: json.dump, the log line, then the name is returned
SrSaveDump ==
    /\ pc = "sr_save_dump"
    /\ \/ /\ files' = Dump(files, ArtifactName(CurChunk[1], CurChunk[2]),
                           Artifact(CurChunk[1], CurChunk[2], results))
          /\ filename' = ArtifactName(CurChunk[1], CurChunk[2])
          /\ log' = Append(log, LogLine("saved", CurChunk))
          /\ pc' = "run_after_chunk"
          /\ UNCHANGED exc
       \/ /\ pc' = "sr_raised"
          /\ exc' = "OSError"
          /\ UNCHANGED <<files, filename, log>>
    /\ UNCHANGED <<planVars, pageVars, parseVars, sessVars, date_chunks, idx,
                   generated_files, now, concVars, selVars, batchVars, scrollVars>>

\* lines 186-188: the chunk runner's handler logs and returns None
SrExcept ==
    /\ pc \in {"sr_raised", "parse_raised"}
    /\ IF SrCatches(exc)
       THEN /\ pc' = "run_after_chunk"
            /\ filename' = NoFile
            /\ log' = Append(log, LogLine("failed", CurChunk))
       ELSE pc' = "run_except" /\ UNCHANGED <<filename, log>>
    /\ UNCHANGED <<exc, planVars, pageVars, parseVars, sessVars, date_chunks,
                   idx, generated_files, files, now, concVars, selVars, batchVars, scrollVars>>

\* faulty variant: whatever the chunk runner returned is kept
Collect_Always(gf, f) == Append(gf, f)

\* lines 138-139: if filename: generated_files.append(filename)
Collect(gf, f) == IF f # NoFile THEN Append(gf, f) ELSE gf

\* lines 138-141: the name is kept if there is one.  The frames of the chunk
\* runner, the loader and the parser are gone by now, and nothing reads the
\* page again before the next date filter reloads it.
RunAfterChunk ==
    /\ pc = "run_after_chunk"
    /\ generated_files' = Collect(generated_files, filename)
    /\ idx' = NextIdx(idx)
    /\ pc' = AfterChunk(filename)
    /\ exc' = "none"
    /\ table' = "none" /\ rows' = <<>> /\ height' = 0
    /\ start_date_str' = NoDateStr /\ end_date_str' = NoDateStr
    /\ start_date_obj' = NoDate /\ end_date_obj' = NoDate
    /\ ri' = 0 /\ current_date' = NoDate /\ results' = <<>>
    /\ last_height' = 0 /\ attempts' = 0 /\ current_loaded_date' = NoDate
    /\ scroll_exit' = "none" /\ scrolls' = 0
    /\ UNCHANGED <<planVars, sessVars, date_chunks, filename, outVars>>

\* lines 143-145, 150-151, 87-91: return through the finally clause; quit()
\* ends the session and may still report an error
RunReturn ==
    /\ pc = "run_return"
    /\ driver' = Close(driver)
    /\ \/ pc' = "done_returned" /\ UNCHANGED exc
       \/ pc' = "done_raised" /\ exc' = "WebDriverException"
    /\ UNCHANGED <<planVars, pageVars, parseVars, view_filter, formVars, loopVars,
                   outVars, scrollVars>>

\* lines 147-151, 87-91: log, raise again through the finally clause
RunExcept ==
    /\ pc = "run_except"
    /\ driver' = ExceptFinally(driver)
    /\ \/ UNCHANGED exc
       \/ exc' = "WebDriverException"               \* driver.quit() raises
    /\ pc' = "done_raised"
    /\ UNCHANGED <<planVars, pageVars, parseVars, view_filter, formVars, loopVars,
                   outVars, scrollVars>>

\* Ctrl-C while run executes: KeyboardInterrupt is no Exception, so neither the
\* chunk runner's handler (line 186) nor run's (line 147) catches it; inside
\* the try statement it leaves through the finally clause, before the try
\* statement (lines 110-122) it leaves run at once
Interrupt ==
    /\ exc' = "KeyboardInterrupt"
    /\ \/ /\ pc \in {"sr_date", "sr_scroll", "scroll_loop", "sr_page_source",
                     "parse_begin", "parse_loop", "parse_returned",
                     "sr_save_dump"}
          /\ pc' = "sr_raised"
       \/ /\ pc \in {"run_get", "run_filters", "run_loop", "run_after_chunk",
                     "run_return"}
          /\ pc' = "run_except"
       \/ /\ pc \in {"run_entry", "gen_parse", "gen_loop", "gen_returned"}
          /\ pc' = "done_raised"
    \* the frames of the loader and the parser are unwound, and nothing reads
    \* the page again
    /\ table' = "none" /\ rows' = <<>> /\ height' = 0
    /\ start_date_str' = NoDateStr /\ end_date_str' = NoDateStr
    /\ start_date_obj' = NoDate /\ end_date_obj' = NoDate
    /\ ri' = 0 /\ current_date' = NoDate /\ results' = <<>>
    /\ last_height' = 0 /\ attempts' = 0 /\ current_loaded_date' = NoDate
    /\ scroll_exit' = "none" /\ scrolls' = 0
    /\ UNCHANGED <<planVars, sessVars, loopVars, outVars>>

\* the harvest is asked for once more: a new scraper with a new session, the
\* same arguments, the same output directory, a later reading of the clock
Rerun ==
    /\ pc \in {"done_returned", "done_raised"}
    /\ now < MaxRuns
    /\ now' = now + 1
    /\ pc' = "run_entry"
    /\ exc' = "none"
    /\ start' = NoDate /\ end' = NoDate /\ current' = NoDate /\ chunks' = <<>>
    /\ driver' = "open"
    /\ view_filter' = default_countries /\ checked' = default_countries
    /\ date_chunks' = <<>> /\ idx' = 0
    /\ generated_files' = <<>> /\ filename' = NoFile
    /\ UNCHANGED <<start_date, end_date, interval_days, pageVars, parseVars,
                   country_labels, default_countries, target_countries,
                   files, log, concVars, selVars, batchVars, scrollVars>>

(***************************************************************************)
(* The planner on its own                                                  *)
(***************************************************************************)
\* window starts tried: a plain one, one before a leap day, one before a new year
StartDates == {<<2024, 1, 1>>, <<2024, 2, 26>>, <<2023, 12, 28>>}

\* a string strptime rejects
BadDate == <<2024, 2, 30>>

IdlePage  == table = "none" /\ rows = <<>> /\ height = 0
IdleParse ==
    /\ start_date_str = NoDateStr /\ end_date_str = NoDateStr
    /\ start_date_obj = NoDate /\ end_date_obj = NoDate
    /\ ri = 0 /\ current_date = NoDate /\ results = <<>>
IdlePlan ==
    /\ start_date = NoDateStr /\ end_date = NoDateStr /\ interval_days = 0
    /\ start = NoDate /\ end = NoDate /\ current = NoDate /\ chunks = <<>>

\* the option labels of the modelled form, and the targets asked for: one in
\* two labels, one in one label, one in no label
LabelUS == <<"u", "s">>
LabelUK == <<"u", "k">>
LabelJP == <<"j", "p">>
Labels  == {LabelUS, LabelUK, LabelJP}
Targets == {<<"u">>, <<"u", "s">>, <<"t", "w">>}

\* no filter form
NoForm ==
    country_labels = {} /\ default_countries = {} /\ target_countries = {}

\* the form of a whole run: a site that ticks nothing by default
RunForm ==
    /\ country_labels = Labels
    /\ default_countries = {}
    /\ target_countries = {<<"u", "s">>, <<"t", "w">>}

\* no background task
IdleTasks == tasks = <<>> /\ handlers = {} /\ log_files = <<>>

\* the constituents updater is not running
IdleUpd ==
    /\ csv_file = [exists |-> FALSE, rows |-> <<>>] /\ wiki_table = <<>>
    /\ latest = <<>> /\ existing = <<>> /\ to_add = <<>>
    /\ attempt = 0 /\ last_err = "none" /\ requests_made = 0

\* None where an export is expected
NoExport == <<0, 0>>

\* the Morningstar scraper is not running
IdleDl ==
    /\ url_idx = 0 /\ success_count = 0 /\ fail_count = 0 /\ ret = FALSE
    /\ report_type = 0 /\ downloads = <<>> /\ mtimes = <<>> /\ saved = {}
    /\ wait_elapsed = 0 /\ downloaded_file = NoExport

\* no EarningsScraper
IdleEarn == db_conn = FALSE /\ connection = "none" /\ urls = 0

IdleBatch == IdleUpd /\ IdleDl /\ IdleEarn

\* no element is looked for
IdleLookup == lookup = "none" /\ selectors = <<>> /\ tried = <<>> /\ found = 0

IdleScroll ==
    /\ last_height = 0 /\ attempts = 0 /\ current_loaded_date = NoDate
    /\ scroll_exit = "none" /\ scrolls = 0

IdleRun ==
    /\ driver = "open"
    /\ view_filter = default_countries /\ checked = default_countries
    /\ date_chunks = <<>> /\ idx = 0
    /\ generated_files = <<>> /\ filename = NoFile /\ files = <<>>
    /\ log = <<>> /\ now = 1
    /\ IdleScroll /\ IdleTasks /\ IdleLookup /\ IdleBatch

InitPlan ==
    /\ pc = "gen_parse"
    /\ exc = "none"
    /\ \E s \in StartDates, span \in -2..MaxSpan :
          /\ start_date = s
          /\ end_date \in {StrfTime(StrpTime(s) + span), BadDate}
    /\ interval_days \in -1..MaxInterval
    /\ start = NoDate /\ end = NoDate /\ current = NoDate /\ chunks = <<>>
    /\ IdlePage /\ IdleParse /\ NoForm /\ IdleRun

NextPlan == GenParse \/ GenParseRaise \/ GenIter \/ GenReturn

SpecPlan == InitPlan /\ [][NextPlan]_vars

(***************************************************************************)
(* The parser on its own: one chunk window, one loaded page                *)
(***************************************************************************)
\* the chunk windows tried, as the planner's (start string, end string)
ParseWindows == { <<(<<2024, 2, 28>>), (<<2024, 3, 1>>)>>,
                  <<(<<2024, 2, 29>>), (<<2024, 2, 29>>)>> }

\* the days the page's section headers may name: before, inside, at the end
\* of or after a window
HeaderDays == {<<2024, 2, 27>>, <<2024, 2, 29>>, <<2024, 3, 1>>}

RowKinds ==
    {HeaderRow(DayLabel(d)) : d \in HeaderDays}
        \cup {HeaderRow(<<>>), HeaderRow(<<IsoToken(<<2024, 2, 29>>)>>)}
        \cup {ValidRow, PlainRow, MalformedRow, OtherRow}

\* all pages of at most n rows
Pages(n) == UNION {[1..k -> RowKinds] : k \in 0..n}

InitParse ==
    /\ pc = "parse_begin"
    /\ exc = "none"
    /\ IdlePlan /\ NoForm /\ IdleRun
    /\ \/ table = "ok" /\ rows \in Pages(MaxRows)
       \/ table \in {"none", "no_tbody"} /\ rows = <<>>
    /\ height = 0
    /\ \E w \in ParseWindows : start_date_str = w[1] /\ end_date_str = w[2]
    /\ start_date_obj = NoDate /\ end_date_obj = NoDate
    /\ ri = 0 /\ results = <<>>
    \* what an earlier parse left in the variable
    /\ current_date \in {NoDate, StrpTime(<<2024, 2, 29>>)}

NextParse == ParseBegin \/ ParseRow \/ ParseReturn

SpecParse == InitParse /\ [][NextParse]_vars

(***************************************************************************)
(* A whole run: InvestingCalendarScraper(...).run(start, end, .., interval) *)
(***************************************************************************)
RunStartDates == {<<2024, 2, 28>>}

\* largest chunk length of a whole run
RunMaxInterval == 2

Init ==
    /\ pc = "run_entry"
    /\ exc = "none"
    /\ \E s \in RunStartDates, span \in -1..RunMaxSpan :
          /\ start_date = s
          /\ end_date \in {StrfTime(StrpTime(s) + span), BadDate}
    /\ interval_days \in 0..RunMaxInterval
    /\ start = NoDate /\ end = NoDate /\ current = NoDate /\ chunks = <<>>
    /\ IdlePage /\ IdleParse /\ RunForm /\ IdleRun

Next ==
    \/ RunEntry \/ GenParse \/ GenParseRaise \/ GenIter \/ GenReturn
    \/ RunPlanRaised \/ RunPlanned \/ RunGet \/ RunLoop
    \/ CfOpen \/ CfRestore \/ CfClear \/ CfSelect \/ CfSubmit
    \/ SrDate \/ ScrollBegin \/ ScrollIter \/ ScrollExhausted \/ SrPageSource
    \/ ParseBegin \/ ParseRow \/ ParseReturn
    \/ SrSaveOpen \/ SrSaveDump \/ SrExcept
    \/ RunAfterChunk \/ RunReturn \/ RunExcept

Spec == Init /\ [][Next]_vars

(***************************************************************************)
(* The harvest run again and again over one window of one chunk, the       *)
(* output directory kept between the runs                                  *)
(***************************************************************************)
InitTwice ==
    /\ pc = "run_entry"
    /\ exc = "none"
    /\ \E s \in RunStartDates :
          /\ start_date = s
          /\ end_date \in {s, BadDate}
    /\ interval_days = 1
    /\ start = NoDate /\ end = NoDate /\ current = NoDate /\ chunks = <<>>
    /\ IdlePage /\ IdleParse /\ RunForm /\ IdleRun

NextTwice == Next \/ Rerun

SpecTwice == InitTwice /\ [][NextTwice]_vars

(***************************************************************************)
(* The country filter on its own, from any form the session may show       *)
(***************************************************************************)
InitFilter ==
    /\ pc = "run_filters"
    /\ exc = "none"
    /\ country_labels \in SUBSET Labels
    /\ default_countries \in SUBSET country_labels
    /\ checked \in SUBSET country_labels
    /\ view_filter = checked
    /\ target_countries \in SUBSET Targets
    /\ driver = "open"
    /\ date_chunks = <<>> /\ idx = 0
    /\ generated_files = <<>> /\ filename = NoFile /\ files = <<>>
    /\ log = <<>> /\ now = 1
    /\ IdlePlan /\ IdlePage /\ IdleParse /\ IdleScroll /\ IdleTasks
    /\ IdleLookup /\ IdleBatch

NextFilter == CfOpen \/ CfRestore \/ CfClear \/ CfSelect \/ CfSubmit

SpecFilter == InitFilter /\ [][NextFilter]_vars

(***************************************************************************)
(* Background tasks of the service running side by side in one process,    *)
(* each with its own scraper and session, one chunk each                   *)
(***************************************************************************)
MaxTasks == 2

Tasks == 1..MaxTasks

\* the days the tasks are asked for
TaskDates == {<<2024, 2, 28>>, <<2024, 2, 29>>}

\* lines 61-85: a record logged by task r goes to every handler the named
\* logger has at that moment
Emit(r) ==
    [h \in Tasks |-> IF h \in handlers THEN Append(log_files[h], r)
                                       ELSE log_files[h]]

\* lines 53-85: the logger is looked up by its name, its handlers are
\* cleared, the new scraper's file handler is added
SetupLogger(hs, r) == {r}

\* what a task's step leaves alone: the one run modelled step by step
TaskFrame ==
    UNCHANGED <<pc, exc, planVars, pageVars, parseVars, sessVars, loopVars,
                log, now, selVars, batchVars, scrollVars>>

\* api.py lines 70-75, scraper.py lines 18-41: the task builds its scraper
TaskConstruct(r) ==
    /\ tasks[r].pc = "scheduled"
    /\ handlers' = SetupLogger(handlers, r)
    /\ tasks' = [tasks EXCEPT ![r].pc = "constructed"]
    /\ UNCHANGED <<log_files, files>>
    /\ TaskFrame

\* api.py lines 78-82, scraper.py lines 134-141, 160-184: the task's one chunk
\* is read, written under the name made of its window, and logged
TaskChunk(r) ==
    /\ tasks[r].pc = "constructed"
    /\ files' = Dump(files, ArtifactName(tasks[r].start_date, tasks[r].end_date),
                     Artifact(tasks[r].start_date, tasks[r].end_date,
                              tasks[r].results))
    /\ log_files' = Emit(r)
    /\ tasks' = [tasks EXCEPT ![r].pc = "saved"]
    /\ UNCHANGED handlers
    /\ TaskFrame

\* scraper.py lines 143-151, 87-91: the summary is logged, the session closed
TaskClose(r) ==
    /\ tasks[r].pc = "saved"
    /\ log_files' = Emit(r)
    /\ tasks' = [tasks EXCEPT ![r].pc = "closed"]
    /\ UNCHANGED <<handlers, files>>
    /\ TaskFrame

InitTasks ==
    /\ pc = "idle"
    /\ exc = "none"
    /\ tasks \in [Tasks -> [pc : {"scheduled"}, start_date : TaskDates,
                            end_date : TaskDates,
                            results : {<<>>, <<"record">>}]]
    /\ \A r \in Tasks : tasks[r].start_date = tasks[r].end_date
    /\ handlers = {}
    /\ log_files = [r \in Tasks |-> <<>>]
    /\ driver = "open"
    /\ date_chunks = <<>> /\ idx = 0
    /\ generated_files = <<>> /\ filename = NoFile /\ files = <<>>
    /\ log = <<>> /\ now = 1
    /\ NoForm /\ view_filter = {} /\ checked = {}
    /\ IdlePlan /\ IdlePage /\ IdleParse /\ IdleScroll /\ IdleLookup
    /\ IdleBatch

NextTasks ==
    \/ \E r \in Tasks : TaskConstruct(r)
    \/ \E r \in Tasks : TaskChunk(r)
    \/ \E r \in Tasks : TaskClose(r)

SpecTasks == InitTasks /\ [][NextTasks]_vars

(***************************************************************************)
(* The element lookups of the Morningstar scrapers: a list of selectors    *)
(* tried one after the other                                               *)
(***************************************************************************)
\* morningstar_scraper.py lines 317-322, earnings_scraper.py lines 341-346 and
\* 363-366: the length of each selector list
ListLen(l) ==
    CASE l = "export_btn"  -> 4
      [] l = "date_button" -> 4
      [] l = "date_labels" -> 2

\* what a selector may meet: the export button becomes clickable, the wait
\* times out, or the wait raises something else (the session is gone); the
\* date button is found and clicked, is missing, or its click raises; the
\* label query returns some labels, none, or raises
Meets(l) ==
    CASE l = "export_btn"  -> {"clickable", "timeout", "error"}
      [] l = "date_button" -> {"clicked", "missing", "click_raises"}
      [] l = "date_labels" -> {"some", "empty", "raises"}

\* faulty variant: no break, the loop goes on after a success
Break_GoesOn(l) == "sel_loop"

\* morningstar_scraper.py line 329, earnings_scraper.py lines 359 and 374: break
Break(l) == "sel_loop_left"

\* the place in the list the for loop is at
NextSel == Len(tried) + 1

\* morningstar_scraper.py lines 324-332: the next export selector is waited
\* for; a timeout goes on to the next selector, any other exception goes to
\* the handler of download_report (lines 341-343)
ExportTry ==
    /\ pc = "sel_loop" /\ lookup = "export_btn"
    /\ NextSel <= ListLen(lookup)
    /\ tried' = Append(tried, NextSel)
    /\ \/ /\ selectors[NextSel] = "clickable"
          /\ found' = NextSel
          /\ pc' = Break(lookup)
       \/ /\ selectors[NextSel] = "timeout"
          /\ UNCHANGED <<found, pc>>
       \/ /\ selectors[NextSel] = "error"
          /\ pc' = "sel_raised"
          /\ UNCHANGED found
    /\ UNCHANGED <<exc, planVars, pageVars, parseVars, sessVars, loopVars,
                   files, log, now, concVars, batchVars, lookup, selectors, scrollVars>>

\* earnings_scraper.py lines 348-360: the next date button selector is looked
\* up and its element clicked; any exception goes on to the next selector
DateButtonTry ==
    /\ pc = "sel_loop" /\ lookup = "date_button"
    /\ NextSel <= ListLen(lookup)
    /\ tried' = Append(tried, NextSel)
    /\ \/ /\ selectors[NextSel] = "clicked"
          /\ found' = NextSel
          /\ pc' = Break(lookup)
       \/ /\ selectors[NextSel] \in {"missing", "click_raises"}
          /\ UNCHANGED <<found, pc>>
    /\ UNCHANGED <<exc, planVars, pageVars, parseVars, sessVars, loopVars,
                   files, log, now, concVars, batchVars, lookup, selectors, scrollVars>>

\* earnings_scraper.py lines 368-376: the next label selector is queried; a
\* list with labels ends the loop, an empty list or an exception goes on
DateLabelsTry ==
    /\ pc = "sel_loop" /\ lookup = "date_labels"
    /\ NextSel <= ListLen(lookup)
    /\ tried' = Append(tried, NextSel)
    /\ \/ /\ selectors[NextSel] = "some"
          /\ found' = NextSel
          /\ pc' = Break(lookup)
       \/ /\ selectors[NextSel] \in {"empty", "raises"}
          /\ UNCHANGED <<found, pc>>
    /\ UNCHANGED <<exc, planVars, pageVars, parseVars, sessVars, loopVars,
                   files, log, now, concVars, batchVars, lookup, selectors, scrollVars>>

\* morningstar_scraper.py lines 324, 334-336, earnings_scraper.py lines 348,
\* 369, 378: the list is used up, the for loop ends with nothing held
SelExhausted ==
    /\ pc = "sel_loop"
    /\ NextSel > ListLen(lookup)
    /\ pc' = "sel_loop_left"
    /\ UNCHANGED <<exc, planVars, pageVars, parseVars, runVars>>

InitSelect ==
    /\ pc = "sel_loop"
    /\ exc = "none"
    /\ lookup \in {"export_btn", "date_button", "date_labels"}
    /\ selectors \in [1..ListLen(lookup) -> Meets(lookup)]
    /\ tried = <<>>
    /\ found = 0
    /\ driver = "open"
    /\ date_chunks = <<>> /\ idx = 0
    /\ generated_files = <<>> /\ filename = NoFile /\ files = <<>>
    /\ log = <<>> /\ now = 1
    /\ NoForm /\ view_filter = {} /\ checked = {}
    /\ IdlePlan /\ IdlePage /\ IdleParse /\ IdleScroll /\ IdleTasks
    /\ IdleBatch

NextSelect == ExportTry \/ DateButtonTry \/ DateLabelsTry \/ SelExhausted

SpecSelect == InitSelect /\ [][NextSelect]_vars

(***************************************************************************)
(* The S&P 500 constituents updater (constituents.py).  A frame is a       *)
(* sequence of rows [Symbol, Sector, SubIndustry, fetched_at_utc]; a cell   *)
(* is a string, or NaN, the missing value of pandas                         *)
(***************************************************************************)
MaxCsvRows  == 2
MaxWikiRows == 2

NaN == "<NaN>"

\* line 174: some of the texts read_csv takes for a missing value
NaTexts == {"", "nan", "NA"}

\* line 174: read_csv(dtype=str) of one cell
ReadCell(t) == IF t \in NaTexts THEN NaN ELSE t

\* line 212: to_csv of one cell, a missing value is written as nothing
WriteCell(v) == IF v = NaN THEN "" ELSE v

\* lines 139, 143, 184: astype(str) of one cell
AsStr(v) == IF v = NaN THEN "nan" ELSE v

\* lines 146, 188, 205: drop_duplicates(subset=[KEY_COL], keep="last")
RECURSIVE DropDuplicates(_)
DropDuplicates(df) ==
    IF df = <<>> THEN <<>>
    ELSE IF \E j \in 2..Len(df) : df[j].Symbol = Head(df).Symbol
         THEN DropDuplicates(Tail(df))
         ELSE <<Head(df)>> \o DropDuplicates(Tail(df))

\* the order of the modelled symbols as strings
Rank(sym) ==
    CASE sym = "A" -> 1 [] sym = "B" -> 2 [] sym = "C" -> 3 [] OTHER -> 4

\* line 207: sort_values(KEY_COL), by insertion
RECURSIVE SortValues(_)
InsertRow(r, df) ==
    LET before == SelectSeq(df, LAMBDA x : Rank(x.Symbol) <= Rank(r.Symbol))
        after  == SelectSeq(df, LAMBDA x : Rank(x.Symbol) > Rank(r.Symbol))
    IN  before \o <<r>> \o after
SortValues(df) ==
    IF df = <<>> THEN <<>>
    ELSE InsertRow(df[Len(df)], SortValues(SubSeq(df, 1, Len(df) - 1)))

\* lines 163-190: CSVStore.load
Load(f) ==
    IF ~f.exists THEN <<>>
    ELSE DropDuplicates(
           [i \in 1..Len(f.rows) |->
              [Symbol         |-> AsStr(ReadCell(f.rows[i].Symbol)),
               Sector         |-> ReadCell(f.rows[i].Sector),
               SubIndustry    |-> ReadCell(f.rows[i].SubIndustry),
               fetched_at_utc |-> ReadCell(f.rows[i].fetched_at_utc)]])

\* line 212: to_csv
ToCsv(df) ==
    [exists |-> TRUE,
     rows   |-> [i \in 1..Len(df) |->
                   [Symbol         |-> WriteCell(df[i].Symbol),
                    Sector         |-> WriteCell(df[i].Sector),
                    SubIndustry    |-> WriteCell(df[i].SubIndustry),
                    fetched_at_utc |-> WriteCell(df[i].fetched_at_utc)]]]

\* lines 135-152: the three columns as clean strings, one row a symbol, the
\* time of this fetch on every row
Clean(raw, t) ==
    LET df == [i \in 1..Len(raw) |->
                 [Symbol         |-> AsStr(raw[i].Symbol),
                  Sector         |-> AsStr(raw[i].Sector),
                  SubIndustry    |-> AsStr(raw[i].SubIndustry),
                  fetched_at_utc |-> t]]
    IN  DropDuplicates(df)

\* lines 226-232: _symbols
Symbols(df) == {df[i].Symbol : i \in 1..Len(df)}

\* faulty variant: every fetched row is appended
ToAdd_All(lat, ex) == lat

\* lines 249-257: the fetched rows whose symbol the local frame lacks
ToAdd(lat, ex) ==
    SelectSeq(lat, LAMBDA r : r.Symbol \in Symbols(lat) \ Symbols(ex))

\* lines 202-209: concat, drop_duplicates, sort_values
Merged(base, add) == SortValues(DropDuplicates(base \o add))

\* faulty variant: a try more
MoreTries_Four(a) == a < 4

\* line 98: for attempt in range(3)
MoreTries(a) == a < 3

\* what a step of the updater leaves alone
UpdFrame ==
    UNCHANGED <<planVars, pageVars, parseVars, sessVars, loopVars, files, log,
                now, concVars, selVars, dlVars, earnVars, scrollVars>>

\* lines 98-106: one pass of the loop of _get_html: the body of a request
\* that succeeds is returned at once; a failure is kept and the next pass
\* follows
GetHtmlTry ==
    /\ pc = "get_html"
    /\ MoreTries(attempt)
    /\ requests_made' = requests_made + 1
    /\ \/ /\ pc' = "upd_parse"
          /\ UNCHANGED <<attempt, last_err>>
       \/ /\ last_err' \in {"ConnectionError", "HTTPError"}
          /\ attempt' = attempt + 1
          /\ UNCHANGED pc
    /\ UNCHANGED <<exc, csv_file, wiki_table, latest, existing, to_add>>
    /\ UpdFrame

\* line 108: the loop is over, RuntimeError with the last error
GetHtmlGiveUp ==
    /\ pc = "get_html"
    /\ ~MoreTries(attempt)
    /\ pc' = "upd_raised"
    /\ exc' = "RuntimeError"
    /\ UNCHANGED updVars
    /\ UpdFrame

\* lines 132-152: _parse_table and the cleaning
UpdParse ==
    /\ pc = "upd_parse"
    /\ \/ /\ latest' = Clean(wiki_table, "t1")
          /\ pc' = "upd_load"
          /\ UNCHANGED exc
       \/ /\ pc' = "upd_raised"        \* line 115: no such table in the page
          /\ exc' = "ValueError"
          /\ UNCHANGED latest
    /\ UNCHANGED <<csv_file, wiki_table, existing, to_add, attempt, last_err,
                   requests_made>>
    /\ UpdFrame

\* line 246: the local CSV is read
UpdLoad ==
    /\ pc = "upd_load"
    /\ existing' = Load(csv_file)
    /\ pc' = "upd_diff"
    /\ UNCHANGED <<exc, csv_file, wiki_table, latest, to_add, attempt, last_err,
                   requests_made>>
    /\ UpdFrame

\* lines 249-257: the rows of the symbols that are missing
UpdDiff ==
    /\ pc = "upd_diff"
    /\ to_add' = ToAdd(latest, existing)
    /\ pc' = "upd_append"
    /\ UNCHANGED <<exc, csv_file, wiki_table, latest, existing, attempt,
                   last_err, requests_made>>
    /\ UpdFrame

\* lines 260, 192-214: CSVStore.append writes the merged frame, or nothing
\* when there is nothing to add
UpdAppend ==
    /\ pc = "upd_append"
    /\ csv_file' = IF to_add = <<>> THEN csv_file
                   ELSE ToCsv(Merged(existing, to_add))
    /\ pc' = "upd_done"
    /\ UNCHANGED <<exc, wiki_table, latest, existing, to_add, attempt, last_err,
                   requests_made>>
    /\ UpdFrame

\* the rows a local CSV may hold, and the rows the page's table may hold
CsvRows ==
    [Symbol : {"A", "B"}, Sector : {"Old", "nan"}, SubIndustry : {"Sub"},
     fetched_at_utc : {"t0"}]
WikiRows ==
    [Symbol : {"B", "C"}, Sector : {"New", NaN}, SubIndustry : {"Sub"}]

InitUpd ==
    /\ pc = "get_html"
    /\ exc = "none"
    /\ \/ csv_file = [exists |-> FALSE, rows |-> <<>>]
       \/ \E k \in 0..MaxCsvRows :
             \E rs \in [1..k -> CsvRows] :
                csv_file = [exists |-> TRUE, rows |-> rs]
    /\ \E k \in 0..MaxWikiRows : wiki_table \in [1..k -> WikiRows]
    /\ latest = <<>> /\ existing = <<>> /\ to_add = <<>>
    /\ attempt = 0 /\ last_err = "none" /\ requests_made = 0
    /\ driver = "open"
    /\ date_chunks = <<>> /\ idx = 0
    /\ generated_files = <<>> /\ filename = NoFile /\ files = <<>>
    /\ log = <<>> /\ now = 1
    /\ NoForm /\ view_filter = {} /\ checked = {}
    /\ IdlePlan /\ IdlePage /\ IdleParse /\ IdleScroll /\ IdleTasks
    /\ IdleLookup /\ IdleDl /\ IdleEarn

NextUpd ==
    \/ GetHtmlTry \/ GetHtmlGiveUp \/ UpdParse \/ UpdLoad \/ UpdDiff
    \/ UpdAppend

SpecUpd == InitUpd /\ [][NextUpd]_vars

(***************************************************************************)
(* The Morningstar statements scraper (morningstar_scraper.py): run over   *)
(* the URL list, process_url over the three report types, the browser       *)
(* writing its downloads into the download directory meanwhile              *)
(***************************************************************************)
\* lines 484, 490: total = len(urls); the list read has one URL
total == 1

\* lines 42-46: REPORT_TYPES, in the order of its keys
ReportTypes == <<"Income Statement", "Balance Sheet", "Cash Flow">>

Exports == (1..total) \X (1..Len(ReportTypes))

\* line 346: timeout: int = 30
timeout == 30

\* faulty variant: files still being written are not looked at
Downloading_Ignored(d) == {}

\* line 363: the files of the download directory with suffix .crdownload or
\* .tmp
Downloading(d) == {e \in DOMAIN d : d[e] = "partial"}

\* line 370: the files of the download directory with suffix .xls or .xlsx
XlsFiles(d) == {e \in DOMAIN d : d[e] = "done"}

\* line 374: max(xls_files, key=st_mtime), the file written last
Newest(d, mt) ==
    LET at == {i \in 1..Len(mt) : mt[i] \in XlsFiles(d)}
    IN  mt[CHOOSE i \in at : \A j \in at : j <= i]

\* the export the loop of process_url is at
CurExport == <<url_idx + 1, report_type>>

\* what a step of the Morningstar scraper leaves alone
DlFrame ==
    UNCHANGED <<planVars, pageVars, parseVars, sessVars, loopVars, files, log,
                now, concVars, selVars, updVars, earnVars, scrollVars>>

\* lines 479-484: setup_driver and read_urls
MsSetup ==
    /\ pc = "ms_setup"
    /\ \/ pc' = "ms_loop" /\ UNCHANGED exc
       \/ pc' = "ms_raised" /\ exc' = "WebDriverException"
    /\ UNCHANGED dlVars
    /\ DlFrame

\* lines 494-495, 509-520: the next URL, or the statistics and the end
MsLoop ==
    /\ pc = "ms_loop"
    /\ pc' = IF url_idx < total THEN "pu_get" ELSE "ms_done"
    /\ UNCHANGED <<exc, dlVars>>
    /\ DlFrame

\* lines 428-442, 468-470: the page is opened and switched to the quarterly
\* view as originally reported; an exception makes process_url return False
PuGet ==
    /\ pc = "pu_get"
    /\ \/ report_type' = 1 /\ pc' = "pu_tab" /\ UNCHANGED ret
       \/ ret' = FALSE /\ pc' = "ms_count" /\ UNCHANGED report_type
    /\ UNCHANGED <<exc, url_idx, success_count, fail_count, downloads, mtimes,
                   saved, wait_elapsed, downloaded_file>>
    /\ DlFrame

\* lines 445-450, 465-466: the next report type's tab; a tab that cannot be
\* switched to is passed over; after the last report type True is returned
PuTab ==
    /\ pc = "pu_tab"
    /\ IF report_type > Len(ReportTypes)
       THEN ret' = TRUE /\ pc' = "ms_count" /\ report_type' = 0
       ELSE /\ UNCHANGED ret
            /\ \/ pc' = "pu_export" /\ UNCHANGED report_type
               \/ report_type' = report_type + 1 /\ UNCHANGED pc
    /\ UNCHANGED <<exc, url_idx, success_count, fail_count, downloads, mtimes,
                   saved, wait_elapsed, downloaded_file>>
    /\ DlFrame

\* lines 453-457, 317-343, 356: the export button is clicked, which asks the
\* browser for a download, and the wait starts; no button, no download
PuExport ==
    /\ pc = "pu_export"
    /\ \/ /\ downloads' = [downloads EXCEPT ![CurExport] = "pending"]
          /\ wait_elapsed' = 0
          /\ pc' = "pu_wait"
          /\ UNCHANGED report_type
       \/ /\ report_type' = report_type + 1
          /\ pc' = "pu_tab"
          /\ UNCHANGED <<downloads, wait_elapsed>>
    /\ UNCHANGED <<exc, url_idx, success_count, fail_count, ret, mtimes, saved,
                   downloaded_file>>
    /\ DlFrame

\* lines 358-380: one pass of the loop of wait_for_download
WaitPoll ==
    /\ pc = "pu_wait"
    /\ IF ~(wait_elapsed < timeout)
       THEN /\ downloaded_file' = NoExport              \* lines 379-380
            /\ pc' = "pu_next"
            /\ UNCHANGED wait_elapsed
       ELSE IF Downloading(downloads) # {}
       THEN /\ wait_elapsed' = wait_elapsed + 1         \* lines 365-367
            /\ UNCHANGED <<pc, downloaded_file>>
       ELSE IF XlsFiles(downloads) # {}
       THEN /\ downloaded_file' = Newest(downloads, mtimes)  \* lines 372-375
            /\ pc' = "pu_move"
            /\ UNCHANGED wait_elapsed
       ELSE /\ wait_elapsed' = wait_elapsed + 1         \* line 377
            /\ UNCHANGED <<pc, downloaded_file>>
    /\ UNCHANGED <<exc, url_idx, success_count, fail_count, ret, report_type,
                   downloads, mtimes, saved>>
    /\ DlFrame

\* lines 458-459, 382-416: the file is moved into the folder of the report
\* type the loop is at; a move that fails leaves it where it is
PuMove ==
    /\ pc = "pu_move"
    /\ \/ /\ downloads' = [downloads EXCEPT ![downloaded_file] = "moved"]
          /\ saved' = saved \cup {[folder |-> ReportTypes[report_type],
                                    from   |-> downloaded_file]}
       \/ UNCHANGED <<downloads, saved>>               \* lines 414-416
    /\ pc' = "pu_next"
    /\ UNCHANGED <<exc, url_idx, success_count, fail_count, ret, report_type,
                   mtimes, wait_elapsed, downloaded_file>>
    /\ DlFrame

\* lines 460-463: the end of the loop body
PuNext ==
    /\ pc = "pu_next"
    /\ report_type' = report_type + 1
    /\ downloaded_file' = NoExport
    /\ wait_elapsed' = 0
    /\ pc' = "pu_tab"
    /\ UNCHANGED <<exc, url_idx, success_count, fail_count, ret, downloads,
                   mtimes, saved>>
    /\ DlFrame

\* lines 497-507: the URL is counted
MsCount ==
    /\ pc = "ms_count"
    /\ IF ret THEN success_count' = success_count + 1 /\ UNCHANGED fail_count
              ELSE fail_count' = fail_count + 1 /\ UNCHANGED success_count
    /\ url_idx' = url_idx + 1
    /\ pc' = "ms_loop"
    /\ UNCHANGED <<exc, ret, report_type, downloads, mtimes, saved,
                   wait_elapsed, downloaded_file>>
    /\ DlFrame

\* the browser, at any moment of process_url: a download asked for gets its
\* .crdownload file, a download is completed and its .xls file written
BrowserStep ==
    /\ pc \in {"pu_tab", "pu_export", "pu_wait", "pu_move", "pu_next"}
    /\ \E e \in DOMAIN downloads :
          \/ /\ downloads[e] = "pending"
             /\ downloads' = [downloads EXCEPT ![e] = "partial"]
             /\ UNCHANGED mtimes
          \/ /\ downloads[e] \in {"pending", "partial"}
             /\ downloads' = [downloads EXCEPT ![e] = "done"]
             /\ mtimes' = Append(mtimes, e)
    /\ UNCHANGED <<pc, exc, url_idx, success_count, fail_count, ret,
                   report_type, saved, wait_elapsed, downloaded_file>>
    /\ DlFrame

InitDl ==
    /\ pc = "ms_setup"
    /\ exc = "none"
    /\ url_idx = 0 /\ success_count = 0 /\ fail_count = 0 /\ ret = FALSE
    /\ report_type = 0
    /\ downloads = [e \in Exports |-> "none"]
    /\ mtimes = <<>> /\ saved = {}
    /\ wait_elapsed = 0 /\ downloaded_file = NoExport
    /\ driver = "open"
    /\ date_chunks = <<>> /\ idx = 0
    /\ generated_files = <<>> /\ filename = NoFile /\ files = <<>>
    /\ log = <<>> /\ now = 1
    /\ NoForm /\ view_filter = {} /\ checked = {}
    /\ IdlePlan /\ IdlePage /\ IdleParse /\ IdleScroll /\ IdleTasks
    /\ IdleLookup /\ IdleUpd /\ IdleEarn

NextDl ==
    \/ MsSetup \/ MsLoop \/ PuGet \/ PuTab \/ PuExport \/ WaitPoll \/ PuMove
    \/ PuNext \/ MsCount \/ BrowserStep

SpecDl == InitDl /\ [][NextDl]_vars

(***************************************************************************)
(* The earnings transcripts scraper (earnings_scraper.py): the constructor *)
(* with its database connection, then scrape_all.  driver is self.driver    *)
(* ("none" before setup_driver), idx the URLs the loop has finished         *)
(***************************************************************************)
MaxEarnUrls == 3

\* what a step of the earnings scraper leaves alone
EarnFrame ==
    UNCHANGED <<planVars, pageVars, parseVars, view_filter, formVars,
                date_chunks, generated_files, filename, files, log, now,
                concVars, selVars, updVars, dlVars, scrollVars>>

\* lines 33-89: the constructor; init_db connects and makes the table, and
\* its handler sets self.db_conn to None whatever had been done
EsInitDb ==
    /\ pc = "es_init"
    /\ \/ db_conn' = TRUE /\ connection' = "open"    \* lines 56-85
       \/ db_conn' = FALSE /\ connection' = "none"   \* line 56 raises
       \/ db_conn' = FALSE /\ connection' = "open"   \* lines 65-84 raise
    /\ pc' = "es_entry"
    /\ UNCHANGED <<exc, driver, idx, urls>>
    /\ EarnFrame

\* lines 519-522: the URL list; without URLs scrape_all returns
EsReadUrls ==
    /\ pc = "es_entry"
    /\ pc' = IF urls = 0 THEN "es_done" ELSE "es_setup"
    /\ UNCHANGED <<exc, driver, idx, earnVars>>
    /\ EarnFrame

\* lines 525, 242-285: setup_driver, called before the try statement
EsSetup ==
    /\ pc = "es_setup"
    /\ \/ driver' = "open" /\ pc' = "es_loop" /\ UNCHANGED exc
       \/ pc' = "es_raised" /\ exc' = "WebDriverException"
          /\ UNCHANGED driver
    /\ UNCHANGED <<idx, earnVars>>
    /\ EarnFrame

\* lines 528-544: the next URL's page; an exception or a keyboard interrupt
\* ends the loop in a handler; after the last URL the statistics
EsPage ==
    /\ pc = "es_loop"
    /\ IF idx < urls
       THEN \/ idx' = idx + 1 /\ UNCHANGED <<pc, exc>>
            \/ pc' = "es_finally" /\ exc' \in {"Exception", "KeyboardInterrupt"}
               /\ UNCHANGED idx
       ELSE pc' = "es_finally" /\ UNCHANGED <<idx, exc>>
    /\ UNCHANGED <<driver, earnVars>>
    /\ EarnFrame

\* lines 545-551: the browser is quit, then the connection self.db_conn
\* names is closed; quit() raising leaves the finally clause at once
EsFinally ==
    /\ pc = "es_finally"
    /\ driver' = IF driver = "none" THEN driver ELSE "quit"
    /\ \/ /\ connection' = IF db_conn THEN "closed" ELSE connection
          /\ pc' = "es_done"
          /\ exc' = "none"
       \/ /\ driver # "none"
          /\ pc' = "es_raised"
          /\ exc' = "WebDriverException"
          /\ UNCHANGED connection
    /\ UNCHANGED <<idx, db_conn, urls>>
    /\ EarnFrame

InitEarn ==
    /\ pc = "es_init"
    /\ exc = "none"
    /\ db_conn = FALSE /\ connection = "none"
    /\ urls \in 0..MaxEarnUrls
    /\ driver = "none"
    /\ date_chunks = <<>> /\ idx = 0
    /\ generated_files = <<>> /\ filename = NoFile /\ files = <<>>
    /\ log = <<>> /\ now = 1
    /\ NoForm /\ view_filter = {} /\ checked = {}
    /\ IdlePlan /\ IdlePage /\ IdleParse /\ IdleScroll /\ IdleTasks
    /\ IdleLookup /\ IdleUpd /\ IdleDl

NextEarn == EsInitDb \/ EsReadUrls \/ EsSetup \/ EsPage \/ EsFinally

SpecEarn == InitEarn /\ [][NextEarn]_vars

(***************************************************************************)
(* A whole run that may be interrupted from the keyboard                   *)
(***************************************************************************)
\* lines 360-375: the script's run over a window of one or two days, a chunk a
\* day
InitCancel ==
    /\ pc = "run_entry"
    /\ exc = "none"
    /\ \E s \in RunStartDates :
          /\ start_date = s
          /\ end_date \in {s, StrfTime(StrpTime(s) + 1), BadDate}
    /\ interval_days = 1
    /\ start = NoDate /\ end = NoDate /\ current = NoDate /\ chunks = <<>>
    /\ IdlePage /\ IdleParse /\ RunForm /\ IdleRun

NextCancel == Next \/ Interrupt

SpecCancel == InitCancel /\ [][NextCancel]_vars

(***************************************************************************)
(* Claims about the planner (checked under SpecPlan)                       *)
(***************************************************************************)
\* the planner was given two date strings with start <= end and a positive interval
ValidPlanInput ==
    /\ IsValidDate(start_date) /\ IsValidDate(end_date)
    /\ StrpTime(start_date) <= StrpTime(end_date)
    /\ interval_days >= 1

\* the days of chunk c, both ends included
ChunkDays(c) == StrpTime(c[1])..StrpTime(c[2])

\* C1: for a window with start <= end and interval_days >= 1 the chunks are
\* ordered, non-overlapping and contiguous (chunk[i].end + 1 day =
\* chunk[i+1].start), the first starts at the window start, the last ends at
\* the window end, and every day of the window lies in exactly one chunk.
C1_ChunksCoverWindow ==
    (pc \in {"gen_loop", "gen_returned"} /\ ValidPlanInput) =>
        /\ \A i \in 1..Len(chunks) :
              /\ IsValidDate(chunks[i][1]) /\ IsValidDate(chunks[i][2])
              /\ StrpTime(chunks[i][1]) <= StrpTime(chunks[i][2])
        /\ \A i \in 1..(Len(chunks) - 1) :
              StrpTime(chunks[i][2]) + 1 = StrpTime(chunks[i + 1][1])
        /\ Len(chunks) >= 1 => StrpTime(chunks[1][1]) = StrpTime(start_date)
        /\ pc = "gen_returned" =>
              /\ Len(chunks) >= 1
              /\ StrpTime(chunks[Len(chunks)][2]) = StrpTime(end_date)
              /\ \A d \in StrpTime(start_date)..StrpTime(end_date) :
                    Cardinality({i \in 1..Len(chunks) : d \in ChunkDays(chunks[i])}) = 1
              /\ \A i \in 1..Len(chunks) :
                    ChunkDays(chunks[i]) \subseteq StrpTime(start_date)..StrpTime(end_date)

\* a returned plan of at least three chunks that crosses a month boundary
C1_Witness ==
    /\ pc = "gen_returned" /\ ValidPlanInput
    /\ Len(chunks) >= 3
    /\ chunks[1][1][2] # chunks[Len(chunks)][2][2]

\* C2: every chunk except the last spans exactly interval_days days (both ends
\* included); the last spans between 1 and interval_days days and ends at the
\* window end; 2024-01-01..2024-01-10 with interval 7 gives
\* [01-01..01-07, 01-08..01-10].
C2_ChunkLengths ==
    (pc = "gen_returned" /\ ValidPlanInput) =>
        /\ \A i \in 1..(Len(chunks) - 1) :
              StrpTime(chunks[i][2]) - StrpTime(chunks[i][1]) + 1 = interval_days
        /\ Len(chunks) >= 1
        /\ LET last == chunks[Len(chunks)]
           IN  /\ StrpTime(last[2]) - StrpTime(last[1]) + 1 \in 1..interval_days
               /\ last[2] = StrfTime(StrpTime(end_date))
        /\ (start_date = <<2024, 1, 1>> /\ end_date = <<2024, 1, 10>> /\ interval_days = 7)
              => chunks = << <<(<<2024, 1, 1>>), (<<2024, 1, 7>>)>>,
                             <<(<<2024, 1, 8>>), (<<2024, 1, 10>>)>> >>

\* the scenario's plan has been returned
C2_Witness ==
    /\ pc = "gen_returned"
    /\ start_date = <<2024, 1, 1>> /\ end_date = <<2024, 1, 10>> /\ interval_days = 7
    /\ Len(chunks) = 2

\* C3: when the window has start > end, planning fails with an error instead of
\* returning a chunk list (stated for a positive interval_days, the case that
\* C4 does not cover).
C3_InvertedWindowRejected ==
    (IsValidDate(start_date) /\ IsValidDate(end_date)
       /\ StrpTime(start_date) > StrpTime(end_date) /\ interval_days >= 1)
        => pc # "gen_returned"

\* C4: when interval_days <= 0, planning fails with an error: the planner
\* neither produces a chunk nor returns a chunk list (stated for a window with
\* start <= end, the case that C3 does not cover).
C4_NonPositiveIntervalRejected ==
    (interval_days <= 0 /\ IsValidDate(start_date) /\ IsValidDate(end_date)
       /\ StrpTime(start_date) <= StrpTime(end_date))
        => (chunks = <<>> /\ pc # "gen_returned")

(***************************************************************************)
(* Claims about the parser (checked under SpecParse)                       *)
(***************************************************************************)
\* the parse has found the table and is scanning, or has scanned, its rows
Scanning == table = "ok" /\ pc \in {"parse_loop", "parse_returned"}

\* the index of the last header row among the first k rows, 0 if there is none
LastHeaderBefore(k) ==
    LET H == {j \in 1..k : IsHeaderRow(rows[j])}
    IN  IF H = {} THEN 0 ELSE CHOOSE j \in H : \A i \in H : i <= j

\* the date a header label names; NoDate when the label is empty or is no
\* "Y年M月D日" date
SectionDateOf(label) ==
    IF label # <<>> /\ label[1].fmt = "cjk" /\ IsValidDate(label[1].ymd)
    THEN StrpTime(label[1].ymd)
    ELSE NoDate

\* C5: a data row that occurs before the first section-header row of the
\* chunk's rows produces no record: while no header row has been scanned the
\* carried date is none (nothing is carried over from an earlier parse) and
\* the record list is empty.
C5_NoRecordBeforeFirstHeader ==
    (Scanning /\ LastHeaderBefore(ri) = 0) =>
        (current_date = NoDate /\ results = <<>>)

\* a valid data row came first and was dropped; the one after the header was kept
C5_Witness ==
    /\ pc = "parse_returned"
    /\ start_date_str = <<2024, 2, 28>>
    /\ rows = <<ValidRow, HeaderRow(DayLabel(<<2024, 2, 29>>)), ValidRow>>
    /\ Len(results) = 1

\* C6: every record of the parse has a date d with chunk.start <= d <=
\* chunk.end.
C6_RecordsInsideWindow ==
    Scanning =>
        \A i \in 1..Len(results) :
            /\ IsValidDate(results[i].date)
            /\ StrpTime(start_date_str) <= StrpTime(results[i].date)
            /\ StrpTime(results[i].date) <= StrpTime(end_date_str)

\* rows under a header dated after the window were dropped, rows inside kept
C6_Witness ==
    /\ pc = "parse_returned"
    /\ start_date_str = <<2024, 2, 29>> /\ end_date_str = <<2024, 2, 29>>
    /\ rows = <<HeaderRow(DayLabel(<<2024, 2, 29>>)), ValidRow,
                HeaderRow(DayLabel(<<2024, 3, 1>>)), ValidRow>>
    /\ Len(results) = 1

\* C7: every record's date is the date of the most recent section-header row
\* before its data row, and records are appended in the order of their rows.
C7_DateOfMostRecentHeader ==
    [][(pc = "parse_loop" /\ results' # results) =>
          LET h == LastHeaderBefore(ri)
          IN  /\ h > 0
              /\ SectionDateOf(rows[h].theDay) # NoDate
              /\ Len(results') = Len(results) + 1
              /\ SubSeq(results', 1, Len(results)) = results
              /\ results'[Len(results')].date = StrfTime(SectionDateOf(rows[h].theDay))
      ]_vars

\* C8: after a section-header row whose label cannot be parsed into a date
\* (an empty label included) the carried section date is none.
C8_UnparsableHeaderClearsDate ==
    (Scanning /\ ri >= 1 /\ IsHeaderRow(rows[ri])
       /\ SectionDateOf(rows[ri].theDay) = NoDate)
        => current_date = NoDate

\* the carried date lies inside the window being parsed
CarriedInWindow ==
    /\ current_date # NoDate
    /\ StrpTime(start_date_str) <= current_date
    /\ current_date <= StrpTime(end_date_str)

\* C9: a data row whose extraction fails is skipped alone: the scan goes on,
\* the carried date and the records are unchanged by it, and every valid data
\* row under an in-window date still appends its record; [Header(d), valid,
\* malformed, valid] yields exactly 2 records, both dated d.
C9_MalformedRowSkippedAlone ==
    /\ [][(pc = "parse_loop" /\ ri < Len(rows) /\ IsDataRow(rows[ri + 1])) =>
             IF CanExtract(rows[ri + 1])
             THEN CarriedInWindow =>
                     /\ pc' = "parse_loop"
                     /\ Len(results') = Len(results) + 1
                     /\ results'[Len(results')].date = StrfTime(current_date)
                     /\ results'[Len(results')].event = rows[ri + 1].event
             ELSE /\ pc' = "parse_loop"
                  /\ current_date' = current_date
                  /\ results' = results
         ]_vars
    /\ [](\A d \in HeaderDays :
            (/\ pc = "parse_returned"
             /\ rows = <<HeaderRow(DayLabel(d)), ValidRow, MalformedRow, ValidRow>>
             /\ StrpTime(start_date_str) <= StrpTime(d)
             /\ StrpTime(d) <= StrpTime(end_date_str))
                => (Len(results) = 2 /\ results[1].date = d /\ results[2].date = d))

\* the scenario has been parsed
C9_Witness ==
    /\ pc = "parse_returned"
    /\ rows = <<HeaderRow(DayLabel(<<2024, 2, 29>>)), ValidRow, MalformedRow, ValidRow>>
    /\ Len(results) = 2

(***************************************************************************)
(* Claims about the chunk runner (checked under Spec)                      *)
(***************************************************************************)
\* control is inside _scrape_single_range
InChunk ==
    pc \in {"sr_date", "sr_scroll", "scroll_loop", "sr_page_source",
            "parse_begin", "parse_loop", "parse_returned", "parse_raised",
            "sr_save_dump", "sr_raised"}

\* C10: no exception raised by a step of a chunk's processing (date filter,
\* scroll loading, parsing, writing the artifact) leaves the chunk runner: from
\* inside it, control only ever goes back to the run loop with a return value,
\* which is None after an exception.
C10_ChunkRunnerAlwaysReturns ==
    [][InChunk =>
         /\ InChunk' \/ pc' = "run_after_chunk"
         /\ (pc \in {"sr_raised", "parse_raised"}) =>
                (pc' = "run_after_chunk" /\ filename' = NoFile)
      ]_vars

\* the second chunk's write failed and the run loop got None back
C10_Witness ==
    /\ pc = "run_after_chunk"
    /\ idx = 1
    /\ exc = "OSError"
    /\ filename = NoFile

(***************************************************************************)
(* Claims about the run loop (checked under Spec)                          *)
(***************************************************************************)
\* the log has the line ev about chunk c
Logged(ev, c) == \E i \in 1..Len(log) : log[i] = LogLine(ev, c)

\* run has returned or raised
Done == pc \in {"done_returned", "done_raised"}

\* the chunk runner has returned for the k-th chunk
Returned(k) == k <= idx \/ (k = idx + 1 /\ pc = "run_after_chunk")

\* the chunks of the plan
PlannedChunks == {date_chunks[k] : k \in 1..Len(date_chunks)}

\* the names in the list run returns
Listed == {generated_files[i] : i \in 1..Len(generated_files)}

\* C11: when applying the date filter for chunk k raises, chunk k ends as a
\* failure with nothing kept for it (None returned, no artifact, no name in
\* the list), and the run does not end before every chunk after k has been
\* taken up.
C11_FilterFailureSkipsOneChunk ==
    \A k \in 1..Len(date_chunks) :
        Logged("date_filter_failed", date_chunks[k]) =>
            /\ ArtifactName(date_chunks[k][1], date_chunks[k][2]) \notin DOMAIN files
            /\ ArtifactName(date_chunks[k][1], date_chunks[k][2]) \notin Listed
            /\ ~Logged("saved", date_chunks[k])
            /\ Returned(k) => Logged("failed", date_chunks[k])
            /\ (k = idx + 1 /\ pc = "run_after_chunk") => filename = NoFile
            /\ (Done \/ pc = "run_return") =>
                   \A j \in (k + 1)..Len(date_chunks) :
                       Logged("apply_date", date_chunks[j])

\* the first chunk's date filter failed, the second chunk was saved, run returned
C11_Witness ==
    /\ pc = "done_returned"
    /\ Len(date_chunks) = 2
    /\ Logged("date_filter_failed", date_chunks[1])
    /\ generated_files = <<ArtifactName(date_chunks[2][1], date_chunks[2][2])>>

\* C12: no chunk is reported as saved while the calendar view does not have
\* the country filter that was asked for.
C12_NoSuccessWithoutCountryFilter ==
    (\E i \in 1..Len(log) : log[i].ev = "saved")
        => view_filter = {l \in country_labels : Wanted(l)}

\* the log's lines about the begin and the end of a chunk's processing
Trace == SelectSeq(log, LAMBDA l : l.ev # "date_filter_failed")

\* C13: chunks are processed in the order of the plan, one at a time, each
\* once: the log is begin(1), end(1), begin(2), end(2), ... with no chunk left
\* out or taken twice, a chunk begins only after the one before it has ended,
\* and a run that returns has processed them all.
C13_ChunksInOrderOnce ==
    /\ Len(Trace) <= 2 * Len(date_chunks)
    /\ \A p \in 1..Len(Trace) :
          /\ (p + 1) \div 2 <= Len(date_chunks)
          /\ Trace[p].chunk = date_chunks[(p + 1) \div 2]
          /\ (p % 2 = 1) => Trace[p].ev = "apply_date"
          /\ (p % 2 = 0) => Trace[p].ev \in {"saved", "failed"}
    /\ (pc \in {"run_loop", "sr_date", "run_return"}) => Len(Trace) = 2 * idx
    /\ InChunk /\ pc # "sr_date" => Len(Trace) = 2 * idx + 1
    /\ pc = "done_returned" => Len(Trace) = 2 * Len(date_chunks)

\* a run over two chunks has returned, the first chunk failed, the second was saved
C13_Witness ==
    /\ pc = "done_returned"
    /\ Len(date_chunks) = 2
    /\ Len(Trace) = 4
    /\ Trace[2].ev = "failed"
    /\ Trace[4].ev = "saved"

\* C14: once run is inside its try statement, it neither returns nor raises
\* with the session open, whether the chunks succeeded, failed or the first
\* navigation raised; and after the session is closed no step uses it, run
\* is over.
C14_SessionClosedOnEveryPath ==
    /\ (Done /\ start # NoDate) => driver = "quit"
    /\ driver = "quit" => Done

\* the first navigation raised and run raised it again, the session closed
C14_Witness ==
    /\ pc = "done_raised"
    /\ date_chunks # <<>>
    /\ Len(log) = 0
    /\ driver = "quit"

\* C34: every call to run ends with the session closed, also a call that
\* fails before the chunk loop. Refuted: the planner is called before the try
\* statement, and a date string it cannot parse leaves run with the session
\* open.
C34_SessionClosedByEveryCall ==
    Done => driver = "quit"

(***************************************************************************)
(* Claims about what run hands back (checked under Spec)                   *)
(***************************************************************************)
\* the planned chunks the chunk runner has saved, in the order of the plan
SavedChunks == SelectSeq(date_chunks, LAMBDA c : Logged("saved", c))

\* C36: the list run returns holds the artifact names of the chunks that
\* were saved, in the order of the plan, each once; a failed chunk has no
\* entry, and the list is never longer than the plan. All along the loop the
\* list is that of the chunks saved so far.
C36_ListIsTheSavedChunks ==
    (date_chunks # <<>> \/ pc = "done_returned")
    => /\ Len(generated_files) <= Len(date_chunks)
       /\ \A i, j \in 1..Len(generated_files) :
             generated_files[i] = generated_files[j] => i = j
       /\ pc # "run_after_chunk"
             => /\ Len(generated_files) = Len(SavedChunks)
                /\ \A i \in 1..Len(generated_files) :
                      generated_files[i] = ArtifactName(SavedChunks[i][1],
                                                        SavedChunks[i][2])

\* C36 witness: of two chunks the first failed and the second was saved: the
\* returned list has the second chunk's name only
C36_Witness ==
    /\ pc = "done_returned"
    /\ Len(date_chunks) = 2
    /\ Logged("failed", date_chunks[1])
    /\ generated_files = <<ArtifactName(date_chunks[2][1], date_chunks[2][2])>>

\* lines 143-145: the pair run returns, the list of names and the message,
\* which tells how many names there are
RunSummary == [files |-> generated_files, msg |-> Len(generated_files)]

\* the chunks the returned pair names
Accounted ==
    {c \in PlannedChunks :
        \E i \in 1..Len(RunSummary.files) :
            RunSummary.files[i] = ArtifactName(c[1], c[2])}

\* C21: a run that got as far as its try statement never raises to its caller.
C21_RunNeverRaises == ~(pc = "done_raised" /\ start # NoDate)

\* C22: once the session has died, the loop starts no further chunk on it.
C22_NoChunkOnDeadSession == ~(driver = "dead" /\ pc = "sr_date")

\* C23: what run returns accounts for every planned chunk, the failed ones
\* included.
C23_SummaryAccountsForEveryChunk ==
    pc = "done_returned" => Accounted = PlannedChunks

\* C26: every artifact written in full carries the number of its records in
\* meta.count and, in meta.filter_start and meta.filter_end, the start and
\* the end of the planned chunk it is named after.
C26_ArtifactMetaMatchesContent ==
    \A n \in DOMAIN files :
        files[n].state = "complete" =>
            /\ files[n].meta.count = Len(files[n].data)
            /\ <<files[n].meta.filter_start, files[n].meta.filter_end>>
                   \in PlannedChunks
            /\ n = ArtifactName(files[n].meta.filter_start,
                                files[n].meta.filter_end)

\* a run over two chunks has returned; one artifact holds a record, the other none
C26_Witness ==
    /\ pc = "done_returned"
    /\ Len(generated_files) = 2
    /\ files[generated_files[1]].meta.count = 1
    /\ files[generated_files[2]].meta.count = 0

(***************************************************************************)
(* Claims about the country filter (checked under SpecFilter and Spec)     *)
(***************************************************************************)
\* the rendered options whose label contains some target
WantedLabels == {l \in country_labels : Wanted(l)}

\* C27: whatever was ticked before, the form _apply_country_filters submits
\* has exactly the options ticked whose label contains some target as a
\* substring (a target in no label adds nothing). Refuted: an option whose
\* clearing click raised stays ticked.
C27_SelectsExactlyTheWanted ==
    pc = "cf_submit" => checked = WantedLabels

\* the steps of _apply_country_filters
CfPcs == {"run_filters", "cf_restore", "cf_clear", "cf_select", "cf_submit"}

\* C28: within one run the country filter is applied before any chunk is
\* touched and no step outside _apply_country_filters changes the countries
\* the view is filtered by: the date filter, the loader, the parser and the
\* save leave them as they are.
C28_CountriesSetOnceBeforeChunks ==
    [][/\ pc \in CfPcs => log = <<>> /\ idx = 0
       /\ pc \notin CfPcs => view_filter' = view_filter]_vars

\* C28 witness: two chunks went through the date filter and were saved under
\* the countries selected before the first
C28_Witness ==
    /\ pc = "done_returned"
    /\ Len(date_chunks) = 2
    /\ Logged("saved", date_chunks[1]) /\ Logged("saved", date_chunks[2])
    /\ view_filter = WantedLabels /\ view_filter # default_countries

(***************************************************************************)
(* Claims about runs side by side (checked under SpecTasks)                *)
(***************************************************************************)
\* the artifact task r has written, once it has
OwnArtifact(r) == ArtifactName(tasks[r].start_date, tasks[r].end_date)

\* C29: no step of one task changes what belongs to another: the other's
\* handler on the named logger, the other's log file, the artifact the other
\* has written. Refuted: building a scraper clears the handlers of the
\* logger every scraper shares.
C29_TasksShareNothing ==
    [][\A r \in Tasks, q \in Tasks :
          (r # q /\ tasks'[r] # tasks[r])
              => /\ (q \in handlers') = (q \in handlers)
                 /\ log_files'[q] = log_files[q]
                 /\ tasks[q].pc \in {"saved", "closed"}
                       => files'[OwnArtifact(q)] = files[OwnArtifact(q)]]_vars

(***************************************************************************)
(* Claims about the element lookups (checked under SpecSelect)             *)
(***************************************************************************)
\* the i-th selector of the list gets its element
Succeeds(i) == selectors[i] \in {"clickable", "clicked", "some"}

\* the i-th selector fails the way a selector does: nothing to be found or
\* clicked
Fails(i) ==
    selectors[i] \in {"timeout", "missing", "click_raises", "empty", "raises"}

\* C30: the selectors are tried in the order of the list, none skipped and
\* none twice; nothing is tried after a selector that succeeded, and the
\* element held is that of the first selector that succeeds; a selector that
\* fails is followed by the next of the list, so the lookup ends with nothing
\* held only when the whole list has failed.
C30_FirstSuccessWins ==
    /\ \A i \in 1..Len(tried) : tried[i] = i
    /\ \A i \in 1..(Len(tried) - 1) : Fails(i)
    /\ found # 0 => found = Len(tried) /\ Succeeds(found)
    /\ (pc = "sel_loop_left" /\ found # 0)
          => \A i \in 1..(found - 1) : ~Succeeds(i)
    /\ (pc = "sel_loop_left" /\ found = 0)
          => Len(tried) = ListLen(lookup) /\ \A i \in 1..Len(tried) : Fails(i)
    /\ (pc = "sel_loop" /\ Len(tried) > 0) => Fails(Len(tried))

\* C30 witness: the first selector failed, the second one won, and the third,
\* which would have succeeded too, was never tried
C30_Witness ==
    /\ pc = "sel_loop_left"
    /\ tried = <<1, 2>> /\ found = 2
    /\ Len(selectors) = 4
    /\ Fails(1) /\ Succeeds(2) /\ Succeeds(3)

(***************************************************************************)
(* Claims about the constituents updater (checked under SpecUpd)           *)
(***************************************************************************)
\* the rows of a frame, whatever their order
RowsOf(df) == {df[i] : i \in 1..Len(df)}

\* the fetched rows whose symbol the frame df lacks, as they read once stored
MissingFrom(df) ==
    RowsOf(Load(ToCsv(SelectSeq(latest,
                                LAMBDA r : r.Symbol \notin Symbols(df)))))

C33_AtMostThreeRequests ==
    /\ requests_made <= 3
    /\ pc = "get_html" => requests_made = attempt
    /\ pc \in {"upd_parse", "upd_load", "upd_diff", "upd_append", "upd_done"}
          => requests_made = attempt + 1
    /\ (pc = "upd_raised" /\ exc = "RuntimeError")
          => requests_made = 3 /\ attempt = 3 /\ last_err # "none"
    /\ attempt > 0 <=> last_err # "none"

\* C33 witness: two requests failed, the third succeeded and was the last
C33_Witness ==
    pc = "upd_done" /\ requests_made = 3 /\ attempt = 2 /\ last_err # "none"

(***************************************************************************)
(* Claims about the Morningstar statements scraper (checked under SpecDl)  *)
(***************************************************************************)
\* a step of wait_for_download, not of the browser
IsWaitPoll == pc = "pu_wait" /\ downloads' = downloads

\* C32: wait_for_download returns a path only on a pass that finds no
\* .crdownload or .tmp file in the download directory and before the timeout,
\* and then the path of the .xls file written last; it does so on the first
\* such pass with an .xls file there; it returns None only when the timeout
\* has elapsed.
C32_WaitForDownload ==
    [][IsWaitPoll =>
         /\ pc' = "pu_move"
               <=> /\ wait_elapsed < timeout
                   /\ \A e \in Exports : downloads[e] # "partial"
                   /\ \E e \in Exports : downloads[e] = "done"
         /\ pc' = "pu_move"
               => /\ downloads[downloaded_file'] = "done"
                  /\ \A i, j \in 1..Len(mtimes) :
                        (mtimes[i] = downloaded_file' /\ downloads[mtimes[j]] = "done")
                            => j <= i
         /\ pc' = "pu_next"
               <=> wait_elapsed >= timeout
         /\ pc' = "pu_next" => downloaded_file' = NoExport]_vars

\* C32 witness: the wait saw a file being written, waited, and returned the
\* newest of two finished files
C32_Witness ==
    /\ pc = "pu_move"
    /\ wait_elapsed > 0
    /\ Len(mtimes) = 2
    /\ downloads[mtimes[1]] = "done"
    /\ downloaded_file = mtimes[2]

\* C37: a file saved under report type T comes from the export triggered
\* for T in that iteration. Refuted: the wait returns the newest .xls file of
\* the download directory, whichever export wrote it.
C37_SavedFileIsOfItsReport ==
    \A f \in saved : ReportTypes[f.from[2]] = f.folder

\* C38: a URL is counted as a success only if all three reports were saved
\* for it, and the two counts add up to the URLs processed. Refuted:
\* process_url returns True whatever became of the reports.
C38_SuccessMeansAllReports ==
    /\ success_count + fail_count = url_idx
    /\ (pc = "ms_count" /\ ret)
          => \A t \in 1..Len(ReportTypes) :
                [folder |-> ReportTypes[t], from |-> <<url_idx + 1, t>>] \in saved

(***************************************************************************)
(* Claims about the earnings scraper (checked under SpecEarn)              *)
(***************************************************************************)
\* C39: when scrape_all is over, by a return or an exception, no browser it
\* started is still running and the connection the constructor opened is
\* closed. Refuted: the early return for an empty URL list and a failing
\* setup_driver lie before the try statement whose finally clause closes.
C39_BrowserAndConnectionClosed ==
    pc \in {"es_done", "es_raised"}
        => driver # "open" /\ connection # "open"

(***************************************************************************)
(* Claims about an interrupted run (checked under SpecCancel)              *)
(***************************************************************************)
\* C24: a cancellation takes effect between chunks only: when run is over,
\* every chunk that was begun has run to its end.
C24_CancelLetsChunkFinish == Done => Len(Trace) % 2 = 0

\* C25: the artifact of a chunk is on disk, complete, from the moment the
\* chunk is reported as saved, hence before the next chunk's date filter is
\* applied, and it stays there while later chunks are processed and when the
\* run is interrupted.
C25_ArtifactWrittenAtOnce ==
    \A c \in PlannedChunks :
        Logged("saved", c) =>
            /\ ArtifactName(c[1], c[2]) \in DOMAIN files
            /\ files[ArtifactName(c[1], c[2])].state = "complete"
            /\ files[ArtifactName(c[1], c[2])].meta.filter_start = c[1]
            /\ files[ArtifactName(c[1], c[2])].meta.filter_end = c[2]

\* the run was interrupted after the second chunk's date filter was applied;
\* the first chunk's artifact is there
C25_Witness ==
    /\ pc = "done_raised"
    /\ exc = "KeyboardInterrupt"
    /\ Len(date_chunks) = 2
    /\ Logged("saved", date_chunks[1])
    /\ Logged("apply_date", date_chunks[2])
    /\ ~Logged("failed", date_chunks[2])
    /\ DOMAIN files = {ArtifactName(date_chunks[1][1], date_chunks[1][2])}

(***************************************************************************)
(* Claims about _scroll_to_load within a chunk (checked under Spec)        *)
(***************************************************************************)
\* this step is an iteration of the loader's loop that sent its scrollTo
Iterates == pc = "scroll_loop" /\ scrolls' = scrolls + 1

\* the stop date of the chunk being loaded
StopDate == StrpTime(CurChunk[2])

\* C16: a chunk whose loader used up its iterations without reaching the stop
\* date and without the height stalling is never returned as a success.
C16_BudgetExhaustedFailsChunk ==
    (pc = "run_after_chunk" /\ scroll_exit = "exhausted") => filename = NoFile

\* C17: when the loader ends without having reached the stop date, by using up
\* its iterations or by an exception of the scrolling, the chunk runner goes
\* on as after any other ending: the rows loaded so far are handed to the
\* parser unchanged, and the artifact written for the chunk holds the records
\* the parser made of them.
C17_PartialLoadStillParsedAndSaved ==
    /\ [][/\ (pc \in {"sr_scroll", "scroll_loop"} /\ pc' # "scroll_loop")
                => pc' = "sr_page_source"
          /\ (pc = "sr_page_source" /\ scroll_exit \in {"exhausted", "error"})
                => /\ rows' = rows /\ table' = table
                   /\ pc' \in {"parse_begin", "sr_raised"}
         ]_vars
    /\ [](pc = "run_after_chunk" /\ filename # NoFile
            /\ scroll_exit \in {"exhausted", "error"}
          => /\ filename \in DOMAIN files
             /\ files[filename].state = "complete"
             /\ files[filename].data = results
             /\ files[filename].meta.count = Len(results))

\* the budget ran out and the chunk was saved with the one record loaded
C17_Witness ==
    /\ pc = "run_after_chunk"
    /\ scroll_exit = "exhausted"
    /\ filename # NoFile
    /\ Len(files[filename].data) = 1

\* C18: an iteration that reads a height equal to the one read before ends the
\* loop at once, stop date reached or not, and the loader returns normally:
\* the chunk runner goes on to the parser.
C18_StallEndsLoadAsSuccess ==
    [][(Iterates /\ height' = last_height)
          => /\ pc' = "sr_page_source"
             /\ scroll_exit' \in {"stalled", "date_reached", "error"}
             /\ scroll_exit' = "error" \/ exc' = exc
      ]_vars

\* after some growth the height stalled below the stop date and the loader
\* returned
C18_Witness ==
    /\ pc = "sr_page_source"
    /\ scroll_exit = "stalled"
    /\ attempts >= 1
    /\ height = last_height
    /\ current_loaded_date # NoDate
    /\ current_loaded_date < StopDate

\* C19: the loader sends at most max_scroll_attempts scrollTo commands, however
\* the page behaves: every iteration either ends the loop or uses up one unit
\* of the budget.
C19_AtMostMaxIterations ==
    /\ [][Iterates => (pc' # "scroll_loop" \/ attempts' = attempts + 1)]_vars
    /\ [](scrolls <= max_scroll_attempts /\ attempts <= max_scroll_attempts)

\* the loader has sent all the scrollTo commands it may and has given up
C19_Witness ==
    /\ pc = "sr_page_source"
    /\ scroll_exit = "exhausted"
    /\ scrolls = max_scroll_attempts

\* C20: the date is tested before the height: an iteration that reads off the
\* last day row a date at or after the stop date ends the loop as "date
\* reached", also when the height did not grow in it.
C20_DateTestedBeforeHeight ==
    [][(Iterates /\ current_loaded_date' # NoDate
                 /\ current_loaded_date' >= StopDate)
          => /\ pc' = "sr_page_source"
             /\ scroll_exit' = "date_reached"
      ]_vars

\* the stop date was read in an iteration in which the height did not grow
C20_Witness ==
    /\ pc = "sr_page_source"
    /\ scroll_exit = "date_reached"
    /\ height = last_height
    /\ current_loaded_date >= StopDate

(***************************************************************************)
(* Claims about the artifacts of repeated runs (checked under SpecTwice)   *)
(***************************************************************************)
\* the run that read r off the clock saved chunk c
SavedIn(r, c) ==
    \E i \in 1..Len(log) : log[i] = [ev |-> "saved", chunk |-> c, at |-> r]

\* C15: the name of an artifact depends on the chunk's start and end only and
\* a write replaces the file: when a run over the window returns with every
\* chunk saved, and the run before it over the same window saved every chunk
\* too, the output directory holds exactly one artifact per chunk, complete
\* and with the content of the later run.
C15_RerunOverwrites ==
    (/\ pc = "done_returned"
     /\ now >= 2
     /\ \A c \in PlannedChunks : SavedIn(now, c) /\ SavedIn(now - 1, c))
    => /\ DOMAIN files = {ArtifactName(c[1], c[2]) : c \in PlannedChunks}
       /\ \A c \in PlannedChunks :
             /\ files[ArtifactName(c[1], c[2])].state = "complete"
             /\ files[ArtifactName(c[1], c[2])].meta.crawled_at = now
             /\ files[ArtifactName(c[1], c[2])].meta.filter_start = c[1]
             /\ files[ArtifactName(c[1], c[2])].meta.filter_end = c[2]

\* two runs have saved the chunk; the first kept a record, the second found none
C15_Witness ==
    /\ pc = "done_returned"
    /\ now = 2
    /\ PlannedChunks # {}
    /\ \A c \in PlannedChunks : SavedIn(1, c) /\ SavedIn(2, c)
    /\ \E i \in 1..Len(log) : log[i].at = 1 /\ log[i].ev = "saved"
    /\ \A c \in PlannedChunks :
          files[ArtifactName(c[1], c[2])].meta.count = 0

\* C35: a chunk that fails leaves the artifact an earlier run wrote for the
\* same chunk as it was. Refuted: the file is opened for writing, which
\* empties it, before json.dump can fail.
C35_FailureKeepsEarlierArtifact ==
    \A c \in PlannedChunks :
        (now >= 2 /\ SavedIn(now - 1, c) /\ Logged("failed", c))
            => /\ ArtifactName(c[1], c[2]) \in DOMAIN files
               /\ files[ArtifactName(c[1], c[2])].state = "complete"
               /\ files[ArtifactName(c[1], c[2])].meta.crawled_at = now - 1

====
